---- MODULE Spec2Model ----
(***************************************************************************)
(* A model of the affiproductapi backend: the product catalog (slug        *)
(* derivation, the single-featured-media rule, retrieval by id or slug)    *)
(* and the e-mail subscription lifecycle.                                  *)
(*                                                                         *)
(* Strings are sequences of one-character strings, so that lower-casing,   *)
(* slugify and the string-shape test of the retrieve view are computed,    *)
(* not assumed.  The relational store is a set of tables, each a function  *)
(* from primary key to row; a statement of the ORM (INSERT, UPDATE ...     *)
(* WHERE, DELETE) is one atomic step, and a handler that runs alone is one *)
(* action made of its statements in order.                                 *)
(***************************************************************************)
EXTENDS Integers, Sequences, FiniteSets, TLC

VARIABLES
    subs,       \* EmailSubscription table: pk -> row
    seq,        \* the AutoField sequences: next pk of each table
    clock,      \* timezone.now(), in ticks
    response,   \* what the last handler answered
    products,   \* Product table: uuid -> row
    images,     \* ProductImage table: pk -> row
    videos,     \* ProductVideo table: pk -> row
    lookups,    \* Category / SubCategory / Brand / Platform / Tag rows
    writers     \* concurrent handlers: each one's position and locals

vars == <<subs, seq, clock, response, products, images, videos, lookups, writers>>

----------------------------------------------------------------------------
(* Bounds of the model *)

MaxSubs == 2
MaxClock == 2
MaxProducts == 3
MaxMedia == 2
MaxWriters == 2
MaxEntities == 2
MaxConcProducts == 2
MaxMediaProducts == 1
MaxRetrieveProducts == 2

\* NULL of a nullable DateTimeField (unsubscribed_at)
Null == 0

----------------------------------------------------------------------------
(* Strings *)

UpperCase ==
    <<"A", "B", "C", "D", "E", "F", "G", "H", "I", "J", "K", "L", "M",
      "N", "O", "P", "Q", "R", "S", "T", "U", "V", "W", "X", "Y", "Z">>

LowerCase ==
    <<"a", "b", "c", "d", "e", "f", "g", "h", "i", "j", "k", "l", "m",
      "n", "o", "p", "q", "r", "s", "t", "u", "v", "w", "x", "y", "z">>

\* str.lower() on one character
LowerChar(c) ==
    IF \E i \in 1..Len(UpperCase) : UpperCase[i] = c
    THEN LowerCase[CHOOSE i \in 1..Len(UpperCase) : UpperCase[i] = c]
    ELSE c

\* str.lower()
Lower(s) == [i \in 1..Len(s) |-> LowerChar(s[i])]

Letters == {UpperCase[i] : i \in 1..Len(UpperCase)} \cup
           {LowerCase[i] : i \in 1..Len(LowerCase)}
Digits == {"0", "1", "2", "3", "4", "5", "6", "7", "8", "9"}

\* str.isalnum(): non-empty and every character a letter or a digit
IsAlnum(s) == Len(s) > 0 /\ \A i \in 1..Len(s) : s[i] \in Letters \cup Digits

\* str.replace(ch, '')
RECURSIVE RemoveChar(_, _)
RemoveChar(s, ch) ==
    IF s = <<>> THEN <<>>
    ELSE IF Head(s) = ch THEN RemoveChar(Tail(s), ch)
    ELSE <<Head(s)>> \o RemoveChar(Tail(s), ch)

\* str(n) of one decimal digit
DigitChar(d) ==
    CASE d = 0 -> "0" [] d = 1 -> "1" [] d = 2 -> "2" [] d = 3 -> "3"
      [] d = 4 -> "4" [] d = 5 -> "5" [] d = 6 -> "6" [] d = 7 -> "7"
      [] d = 8 -> "8" [] OTHER -> "9"

\* str(n) for a natural number
RECURSIVE IntStr(_)
IntStr(n) ==
    IF n < 10 THEN <<DigitChar(n)>>
    ELSE IntStr(n \div 10) \o <<DigitChar(n % 10)>>

\* django.utils.text.slugify, step 1: re.sub(r"[^\w\s-]", "", value.lower())
RECURSIVE KeepSlugChars(_)
KeepSlugChars(s) ==
    IF s = <<>> THEN <<>>
    ELSE IF Head(s) \in Letters \cup Digits \cup {"_", " ", "-"}
         THEN <<Head(s)>> \o KeepSlugChars(Tail(s))
         ELSE KeepSlugChars(Tail(s))

\* slugify, step 2: re.sub(r"[-\s]+", "-", value)
RECURSIVE CollapseSeparators(_)
CollapseSeparators(s) ==
    IF s = <<>> THEN <<>>
    ELSE IF Head(s) \in {" ", "-"}
         THEN IF Len(s) > 1 /\ s[2] \in {" ", "-"}
              THEN CollapseSeparators(Tail(s))
              ELSE <<"-">> \o CollapseSeparators(Tail(s))
         ELSE <<Head(s)>> \o CollapseSeparators(Tail(s))

\* slugify, step 3: .strip("-_")
RECURSIVE StripDashes(_)
StripDashes(s) ==
    IF s = <<>> THEN <<>>
    ELSE IF Head(s) \in {"-", "_"} THEN StripDashes(Tail(s))
    ELSE IF s[Len(s)] \in {"-", "_"} THEN StripDashes(SubSeq(s, 1, Len(s) - 1))
    ELSE s

\* django.utils.text.slugify
slugify(value) == StripDashes(CollapseSeparators(KeepSlugChars(Lower(value))))

----------------------------------------------------------------------------
(* E-mail subscriptions: apps/marketing *)

\* Addresses a client may send; the stored form is the lower-cased one
Emails == { <<"a", "@", "w">>, <<"A", "@", "w">>, <<"b", "@", "w">> }

\* An absent or empty "email" of a request body
NoEmail == <<>>

\* Verification tokens (uuid4 values); 0 stands for an absent "token"
Tokens == 1..(MaxSubs + 1)
NoToken == 0

STATUS_CHOICES == {"active", "unsubscribed", "pending", "bounced"}

SubIds == DOMAIN subs

NoResponse == [op |-> "none", code |-> 0, msg |-> "", id |-> 0]

Answer(op, code, msg, id) == [op |-> op, code |-> code, msg |-> msg, id |-> id]

\* the catalog and the concurrent handlers are not touched by these handlers
CatalogUnchanged == UNCHANGED <<products, images, videos, lookups, writers>>

\* EmailSubscription.objects.filter(email=email)
SubsByEmail(email) == {i \in SubIds : subs[i].email = email}

\* EmailSubscription.objects.filter(verification_token=token)
SubsByToken(token) == {i \in SubIds : subs[i].verification_token = token}

\* mutant: unsubscribe forgets the timestamp
unsubscribe_NoStamp(row, now) ==
    [row EXCEPT !.status = "unsubscribed"]

\* mutant: unsubscribe writes the wrong status
unsubscribe_Bounce(row, now) ==
    [row EXCEPT !.status = "bounced", !.unsubscribed_at = now]

\* EmailSubscription.unsubscribe, on the row as loaded
unsubscribe(row, now) ==
    [row EXCEPT !.status = "unsubscribed", !.unsubscribed_at = now]

\* EmailSubscription.verify_email, on the row as loaded
verify_email(row) ==
    [row EXCEPT !.is_verified = TRUE, !.status = "active"]

\* mutant: the already-verified check is dropped
AlreadyVerified_Never(row) == FALSE

\* verify_email_subscription: "if subscription.is_verified"
AlreadyVerified(row) == row.is_verified

\* mutant: the already-unsubscribed check is dropped
AlreadyUnsubscribed_Never(row) == FALSE

\* unsubscribe_email: "if subscription.status == 'unsubscribed'"
AlreadyUnsubscribed(row) == row.status = "unsubscribed"

\* the field defaults of a new EmailSubscription
NewSubscription(email, token) ==
    [email |-> email, verification_token |-> token, status |-> "pending",
     is_verified |-> FALSE, unsubscribed_at |-> Null]

\* EmailSubscription.email is unique: an INSERT of a stored address raises
\* IntegrityError
EmailUniqueViolated(email) == SubsByEmail(email) # {}

\* mutant: the duplicate check compares the address as sent
validate_email_AsSent(value) ==
    IF SubsByEmail(value) # {} THEN <<>> ELSE Lower(value)

\* EmailSubscriptionCreateSerializer.validate_email: the value to store, or
\* <<>> for a ValidationError
validate_email(value) ==
    LET email == Lower(value)
    IN IF SubsByEmail(email) # {} THEN <<>> ELSE email

\* POST /subscribe/ : EmailSubscriptionListCreateView with
\* EmailSubscriptionCreateSerializer
subscribe(value, agree_to_terms) ==
    /\ LET email == validate_email(value)
       IN IF ~agree_to_terms \/ email = <<>>
          THEN /\ response' = Answer("subscribe", 400,
                      IF email = <<>> THEN "already subscribed" ELSE "must agree", 0)
               /\ UNCHANGED <<subs, seq>>
          ELSE IF EmailUniqueViolated(Lower(email))
          THEN /\ response' = Answer("subscribe", 500, "IntegrityError", 0)
               /\ UNCHANGED <<subs, seq>>
          ELSE \E token \in Tokens :
                 /\ seq.sub <= MaxSubs
                 /\ SubsByToken(token) = {}
                 /\ \A t \in Tokens : SubsByToken(t) = {} => token <= t
                 /\ subs' = [i \in SubIds \cup {seq.sub} |->
                               IF i = seq.sub
                               THEN NewSubscription(Lower(email), token)
                               ELSE subs[i]]
                 /\ seq' = [seq EXCEPT !.sub = seq.sub + 1]
                 /\ response' = Answer("subscribe", 201, "created", seq.sub)
    /\ UNCHANGED clock
    /\ CatalogUnchanged

\* POST /subscribe/verify/<token>/
verify_email_subscription(token) ==
    /\ IF SubsByToken(token) = {}
       THEN /\ response' = Answer("verify", 400, "invalid token", 0)
            /\ UNCHANGED subs
       ELSE LET i == CHOOSE j \in SubsByToken(token) : TRUE
            IN IF AlreadyVerified(subs[i])
               THEN /\ response' = Answer("verify", 200, "already verified", i)
                    /\ UNCHANGED subs
               ELSE /\ subs' = [subs EXCEPT ![i] = verify_email(subs[i])]
                    /\ response' = Answer("verify", 200, "verified", i)
    /\ UNCHANGED <<seq, clock>>
    /\ CatalogUnchanged

\* mutant: any row is taken when a key is given
FindSubscription_AnyRow(email, token) == SubIds

\* unsubscribe_email: the row is looked up by the token when one is sent,
\* otherwise by the lower-cased e-mail
FindSubscription(email, token) ==
    IF token # NoToken THEN SubsByToken(token) ELSE SubsByEmail(Lower(email))

\* POST /subscribe/unsubscribe/ with body {email, token}
unsubscribe_email(email, token) ==
    /\ IF email = NoEmail /\ token = NoToken
       THEN /\ response' = Answer("unsubscribe", 400, "required", 0)
            /\ UNCHANGED subs
       ELSE LET found == FindSubscription(email, token)
            IN IF found = {}
               THEN /\ response' = Answer("unsubscribe", 404, "not found", 0)
                    /\ UNCHANGED subs
               ELSE LET i == CHOOSE j \in found : TRUE
                    IN IF AlreadyUnsubscribed(subs[i])
                       THEN /\ response' = Answer("unsubscribe", 200, "already unsubscribed", i)
                            /\ UNCHANGED subs
                       ELSE /\ subs' = [subs EXCEPT ![i] = unsubscribe(subs[i], clock)]
                            /\ response' = Answer("unsubscribe", 200, "unsubscribed", i)
    /\ UNCHANGED <<seq, clock>>
    /\ CatalogUnchanged

\* admin: <id>/verify/
verify_subscription(i) ==
    /\ i \in SubIds
    /\ subs' = [subs EXCEPT ![i] = verify_email(subs[i])]
    /\ response' = Answer("admin_verify", 302, "verified", i)
    /\ UNCHANGED <<seq, clock>>
    /\ CatalogUnchanged

\* admin: <id>/unsubscribe/
unsubscribe_subscription(i) ==
    /\ i \in SubIds
    /\ subs' = [subs EXCEPT ![i] = unsubscribe(subs[i], clock)]
    /\ response' = Answer("admin_unsubscribe", 302, "unsubscribed", i)
    /\ UNCHANGED <<seq, clock>>
    /\ CatalogUnchanged

\* mutant: resubscribe goes through verify_email
resubscribe_subscription_Verifies(i) ==
    /\ i \in SubIds
    /\ subs' = [subs EXCEPT ![i] = [verify_email(subs[i]) EXCEPT !.unsubscribed_at = Null]]
    /\ response' = Answer("admin_resubscribe", 302, "reactivated", i)
    /\ UNCHANGED <<seq, clock>>
    /\ CatalogUnchanged

\* admin: <id>/resubscribe/
resubscribe_subscription(i) ==
    /\ i \in SubIds
    /\ subs' = [subs EXCEPT ![i] = [subs[i] EXCEPT !.status = "active",
                                                   !.unsubscribed_at = Null]]
    /\ response' = Answer("admin_resubscribe", 302, "reactivated", i)
    /\ UNCHANGED <<seq, clock>>
    /\ CatalogUnchanged

\* admin bulk action: queryset.update(status='active')
mark_as_active(queryset) ==
    /\ subs' = [i \in SubIds |->
                  IF i \in queryset THEN [subs[i] EXCEPT !.status = "active"]
                  ELSE subs[i]]
    /\ response' = Answer("mark_as_active", 200, "bulk", 0)
    /\ UNCHANGED <<seq, clock>>
    /\ CatalogUnchanged

\* admin bulk action: queryset.update(status='unsubscribed', unsubscribed_at=now)
mark_as_unsubscribed(queryset) ==
    /\ subs' = [i \in SubIds |->
                  IF i \in queryset
                  THEN [subs[i] EXCEPT !.status = "unsubscribed",
                                       !.unsubscribed_at = clock]
                  ELSE subs[i]]
    /\ response' = Answer("mark_as_unsubscribed", 200, "bulk", 0)
    /\ UNCHANGED <<seq, clock>>
    /\ CatalogUnchanged

\* admin bulk action: queryset.filter(is_verified=False).update(...)
verify_selected(queryset) ==
    /\ subs' = [i \in SubIds |->
                  IF i \in queryset /\ ~subs[i].is_verified
                  THEN [subs[i] EXCEPT !.is_verified = TRUE, !.status = "active"]
                  ELSE subs[i]]
    /\ response' = Answer("verify_selected", 200, "bulk", 0)
    /\ UNCHANGED <<seq, clock>>
    /\ CatalogUnchanged

\* admin bulk action: counts the unverified pending rows and sends nothing
send_verification_email(queryset) ==
    /\ response' = Answer("send_verification_email", 200, "bulk",
                          Cardinality({i \in queryset :
                              ~subs[i].is_verified /\ subs[i].status = "pending"}))
    /\ UNCHANGED <<subs, seq, clock>>
    /\ CatalogUnchanged

\* admin change form: status and is_verified are editable fields of the form
admin_change(i, status, is_verified) ==
    /\ i \in SubIds
    /\ subs' = [subs EXCEPT ![i] = [subs[i] EXCEPT !.status = status,
                                                   !.is_verified = is_verified]]
    /\ response' = Answer("admin_change", 302, "changed", i)
    /\ UNCHANGED <<seq, clock>>
    /\ CatalogUnchanged

\* time passes between requests
Tick ==
    /\ clock < MaxClock
    /\ clock' = clock + 1
    /\ UNCHANGED <<subs, seq, response>>
    /\ CatalogUnchanged

NoRows == [i \in {} |-> 0]

InitSeq == [sub |-> 1, image |-> 1, video |-> 1, lookup |-> 1]

InitSub ==
    /\ subs = NoRows
    /\ seq = InitSeq
    /\ clock = 1
    /\ response = NoResponse
    /\ products = NoRows
    /\ images = NoRows
    /\ videos = NoRows
    /\ lookups = NoRows
    /\ writers = NoRows

Querysets == SUBSET SubIds \ {{}}

NextSub ==
    \/ \E value \in Emails, agree \in BOOLEAN : subscribe(value, agree)
    \/ \E token \in Tokens : verify_email_subscription(token)
    \/ \E email \in Emails \cup {NoEmail}, token \in Tokens \cup {NoToken} :
          unsubscribe_email(email, token)
    \/ \E i \in SubIds : verify_subscription(i)
    \/ \E i \in SubIds : unsubscribe_subscription(i)
    \/ \E i \in SubIds : resubscribe_subscription(i)
    \/ \E q \in Querysets : mark_as_active(q)
    \/ \E q \in Querysets : mark_as_unsubscribed(q)
    \/ \E q \in Querysets : verify_selected(q)
    \/ \E q \in Querysets : send_verification_email(q)
    \/ \E i \in SubIds, st \in STATUS_CHOICES, v \in BOOLEAN : admin_change(i, st, v)
    \/ Tick

SpecSub == InitSub /\ [][NextSub]_vars

----------------------------------------------------------------------------
(* The catalog store: apps/products/models.py *)

\* The tables a catalog handler reads and writes, as one value, so that a
\* handler is the composition of its statements; error names the exception
\* that ended it ("" for none).
DB ==
    [products |-> products, images |-> images, videos |-> videos,
     lookups |-> lookups, seq |-> seq, error |-> ""]

Commit(db) ==
    /\ products' = db.products
    /\ images' = db.images
    /\ videos' = db.videos
    /\ lookups' = db.lookups
    /\ seq' = db.seq

Raise(db, e) == [db EXCEPT !.error = e]

Failed(db) == db.error # ""

\* table with row written at key k (INSERT, or UPDATE of all fields)
Put(table, k, row) ==
    [i \in DOMAIN table \cup {k} |-> IF i = k THEN row ELSE table[i]]

\* table without the rows whose keys are in ks (DELETE)
Without(table, ks) == [i \in DOMAIN table \ ks |-> table[i]]

\* Product titles a client may send: one that lower-cases, one whose slug is
\* the first suffixed form of another's, one whose slug is empty
Titles == { <<"A">>, <<"A", " ", "1">>, <<"!">> }

\* a title whose slug is longer than ten characters, and a short one
LongTitle == <<"W", "a", "b", " ", "W", "a", "b", " ", "W", "a", "b">>
RetrieveTitles == { <<"A">>, LongTitle }

\* product_asin codes
Asins == 1..MaxProducts

\* uuid4 values of Product.id
ProductIds == 1..MaxProducts

\* Product.id default=uuid.uuid4: an id no stored product has
FreshProductId(db) ==
    CHOOSE id \in 1..(Cardinality(DOMAIN db.products) + 1) :
        /\ id \notin DOMAIN db.products
        /\ \A j \in 1..(id - 1) : j \in DOMAIN db.products

\* Product.objects.filter(slug=slug).exists()
SlugExists(db, slug) ==
    \E q \in DOMAIN db.products : db.products[q].slug = slug

\* mutant: the suffix counter starts at 2
RECURSIVE UniqueSlug_From2(_, _, _, _)
UniqueSlug_From2(db, base_slug, slug, counter) ==
    IF SlugExists(db, slug)
    THEN UniqueSlug_From2(db, base_slug,
                          base_slug \o <<"-">> \o IntStr(counter + 1), counter + 1)
    ELSE slug

\* Product.save: the while loop that appends -counter until the slug is free
RECURSIVE UniqueSlug(_, _, _, _)
UniqueSlug(db, base_slug, slug, counter) ==
    IF SlugExists(db, slug)
    THEN UniqueSlug(db, base_slug,
                    base_slug \o <<"-">> \o IntStr(counter), counter + 1)
    ELSE slug

\* mutant: the slug is derived on every save
DeriveSlug_Always(db, row) ==
    [row EXCEPT !.slug = UniqueSlug(db, slugify(row.title), slugify(row.title), 1)]

\* Product.save, before super().save(): "if not self.slug: ..."
DeriveSlug(db, row) ==
    IF row.slug = <<>>
    THEN [row EXCEPT !.slug = UniqueSlug(db, slugify(row.title), slugify(row.title), 1)]
    ELSE row

\* mutant: the slug column has no unique constraint
ProductUniqueViolated_NoSlug(db, id, row) ==
    \E q \in DOMAIN db.products \ {id} :
        db.products[q].product_asin = row.product_asin

\* the unique constraints of the Product table: slug, product_asin
ProductUniqueViolated(db, id, row) ==
    \E q \in DOMAIN db.products \ {id} :
        \/ db.products[q].slug = row.slug
        \/ db.products[q].product_asin = row.product_asin

\* super().save() of a Product: INSERT or UPDATE under the unique constraints
WriteProduct(db, id, row) ==
    IF ProductUniqueViolated(db, id, row)
    THEN Raise(db, "IntegrityError")
    ELSE [db EXCEPT !.products = Put(db.products, id, row)]

\* Product.save
Product_save(db, id, row) == WriteProduct(db, id, DeriveSlug(db, row))

\* a Product instance built from the writable fields; the slug is not one
NewProduct(asin, title, published, active) ==
    [product_asin |-> asin, title |-> title, slug |-> <<>>,
     published |-> published, active |-> active]

----------------------------------------------------------------------------
(* Product media: ProductImage / ProductVideo *)

\* <table>.objects.filter(product=p, is_featured=True).exclude(id=id)
\*     .update(is_featured=False)
ClearFeatured(table, p, id) ==
    [i \in DOMAIN table |->
        IF table[i].product = p /\ table[i].is_featured /\ i # id
        THEN [table[i] EXCEPT !.is_featured = FALSE]
        ELSE table[i]]

\* mutant: the featured flag of the siblings is never cleared
ProductImage_save_NoClear(db, id, row) ==
    LET pk == IF id = 0 THEN db.seq.image ELSE id
    IN [db EXCEPT !.images = Put(db.images, pk, row),
                  !.seq.image = IF id = 0 THEN db.seq.image + 1 ELSE db.seq.image]

\* ProductImage.save; id = 0 is an instance not yet stored
ProductImage_save(db, id, row) ==
    LET cleared == IF row.is_featured
                   THEN ClearFeatured(db.images, row.product, id)
                   ELSE db.images
        pk == IF id = 0 THEN db.seq.image ELSE id
    IN [db EXCEPT !.images = Put(cleared, pk, row),
                  !.seq.image = IF id = 0 THEN db.seq.image + 1 ELSE db.seq.image]

\* ProductVideo.save; id = 0 is an instance not yet stored
ProductVideo_save(db, id, row) ==
    LET cleared == IF row.is_featured
                   THEN ClearFeatured(db.videos, row.product, id)
                   ELSE db.videos
        pk == IF id = 0 THEN db.seq.video ELSE id
    IN [db EXCEPT !.videos = Put(cleared, pk, row),
                  !.seq.video = IF id = 0 THEN db.seq.video + 1 ELSE db.seq.video]

Media(p, is_featured) == [product |-> p, is_featured |-> is_featured]

\* for i, image_data in enumerate(images_data): ProductImage.objects.create(...)
RECURSIVE CreateImages(_, _, _)
CreateImages(db, p, images_data) ==
    IF images_data = <<>> THEN db
    ELSE CreateImages(ProductImage_save(db, 0, Media(p, Head(images_data))),
                      p, Tail(images_data))

\* for i, video_data in enumerate(videos_data): ProductVideo.objects.create(...)
RECURSIVE CreateVideos(_, _, _)
CreateVideos(db, p, videos_data) ==
    IF videos_data = <<>> THEN db
    ELSE CreateVideos(ProductVideo_save(db, 0, Media(p, Head(videos_data))),
                      p, Tail(videos_data))

ImagesOf(db, p) == {i \in DOMAIN db.images : db.images[i].product = p}
VideosOf(db, p) == {i \in DOMAIN db.videos : db.videos[i].product = p}

\* instance.images.all().delete()
DeleteImagesOf(db, p) == [db EXCEPT !.images = Without(db.images, ImagesOf(db, p))]

\* instance.videos.all().delete()
DeleteVideosOf(db, p) == [db EXCEPT !.videos = Without(db.videos, VideosOf(db, p))]

\* Product.delete: images and videos go with it (on_delete=CASCADE)
DeleteProduct(db, p) ==
    LET d == DeleteVideosOf(DeleteImagesOf(db, p), p)
    IN [d EXCEPT !.products = Without(d.products, {p})]

----------------------------------------------------------------------------
(* Catalog handlers, each run alone *)

\* the subscription table and the clock are not touched by catalog handlers
OthersUnchanged == UNCHANGED <<subs, clock, writers>>

\* ProductViewSet.queryset: .filter(published=True, active=True)
Visible == {q \in DOMAIN products : products[q].published /\ products[q].active}

\* product_asin values a client sends: a new code, or one already stored
AsinInputs ==
    {FreshProductId(DB)} \cup {products[q].product_asin : q \in DOMAIN products}

\* ProductCreateUpdateSerializer.create, behind POST /products/
product_create(asin, title, published, active, images_data, videos_data) ==
    /\ IF \E q \in DOMAIN products : products[q].product_asin = asin
       THEN /\ response' = Answer("product_create", 400, "asin exists", 0)
            /\ UNCHANGED <<products, images, videos, lookups, seq>>
       ELSE LET id == FreshProductId(DB)
                saved == Product_save(DB, id, NewProduct(asin, title, published, active))
            IN IF Failed(saved)
               THEN /\ response' = Answer("product_create", 500, saved.error, 0)
                    /\ UNCHANGED <<products, images, videos, lookups, seq>>
               ELSE /\ Commit(CreateVideos(CreateImages(saved, id, images_data),
                                           id, videos_data))
                    /\ response' = Answer("product_create", 201, "created", 0)
    /\ OthersUnchanged

\* ProductCreateUpdateSerializer.update, behind PATCH /products/<pk>/ ;
\* images_given / videos_given: whether the body carries images_data / videos_data
product_update(id, title, published, active, images_given, images_data, videos_given, videos_data) ==
    /\ id \in Visible
    /\ LET instance == [products[id] EXCEPT !.title = title,
                                             !.published = published,
                                             !.active = active]
           saved == Product_save(DB, id, instance)
           imgs == IF images_given
                   THEN CreateImages(DeleteImagesOf(saved, id), id, images_data)
                   ELSE saved
           vids == IF videos_given
                   THEN CreateVideos(DeleteVideosOf(imgs, id), id, videos_data)
                   ELSE imgs
       IN IF Failed(saved)
          THEN /\ response' = Answer("product_update", 500, saved.error, 0)
               /\ UNCHANGED <<products, images, videos, lookups, seq>>
          ELSE /\ Commit(vids)
               /\ response' = Answer("product_update", 200, "updated", 0)
    /\ OthersUnchanged

\* deleting a product (admin, or DELETE /products/<pk>/)
product_delete(id) ==
    /\ id \in DOMAIN products
    /\ Commit(DeleteProduct(DB, id))
    /\ response' = Answer("product_delete", 204, "deleted", 0)
    /\ OthersUnchanged

\* ProductImage.objects.create(product=p, is_featured=f), or the admin add form
image_create(p, is_featured) ==
    /\ p \in DOMAIN products
    /\ Commit(ProductImage_save(DB, 0, Media(p, is_featured)))
    /\ response' = Answer("image_save", 201, "image", 0)
    /\ OthersUnchanged

\* the admin change form of a ProductImage: load, assign, save
image_update(i, p, is_featured) ==
    /\ i \in DOMAIN images
    /\ p \in DOMAIN products
    /\ Commit(ProductImage_save(DB, i, Media(p, is_featured)))
    /\ response' = Answer("image_save", 200, "image", 0)
    /\ OthersUnchanged

\* deleting a ProductImage
image_delete(i) ==
    /\ i \in DOMAIN images
    /\ Commit([DB EXCEPT !.images = Without(images, {i})])
    /\ response' = Answer("image_delete", 204, "image", 0)
    /\ OthersUnchanged

\* ProductVideo.objects.create(product=p, is_featured=f), or the admin add form
video_create(p, is_featured) ==
    /\ p \in DOMAIN products
    /\ Commit(ProductVideo_save(DB, 0, Media(p, is_featured)))
    /\ response' = Answer("video_save", 201, "video", 0)
    /\ OthersUnchanged

\* the admin change form of a ProductVideo: load, assign, save
video_update(i, p, is_featured) ==
    /\ i \in DOMAIN videos
    /\ p \in DOMAIN products
    /\ Commit(ProductVideo_save(DB, i, Media(p, is_featured)))
    /\ response' = Answer("video_save", 200, "video", 0)
    /\ OthersUnchanged

\* deleting a ProductVideo
video_delete(i) ==
    /\ i \in DOMAIN videos
    /\ Commit([DB EXCEPT !.videos = Without(videos, {i})])
    /\ response' = Answer("video_delete", 204, "video", 0)
    /\ OthersUnchanged

----------------------------------------------------------------------------
(* Lookup entities: Category, SubCategory, Brand, Platform, Tag *)

Kinds == {"category", "subcategory", "brand", "platform", "tag"}

\* names an administrator may type
Names == { <<"B", " ", "b">>, <<"C">> }

\* a slug typed by hand into the admin form: one that a name or title of
\* another entity also derives
TypedSlug == <<"c">>

\* a lookup instance; category is the parent of a SubCategory, Null otherwise
Lookup(kind, name, slug, category) ==
    [kind |-> kind, name |-> name, slug |-> slug, category |-> category]

\* Category rows
Categories(db) == {q \in DOMAIN db.lookups : db.lookups[q].kind = "category"}

\* unique=True on name and on slug; SubCategory: unique_together (name, category)
LookupUniqueViolated(db, id, row) ==
    \E q \in DOMAIN db.lookups \ {id} :
        LET o == db.lookups[q]
        IN /\ o.kind = row.kind
           /\ IF row.kind = "subcategory"
              THEN o.name = row.name /\ o.category = row.category
              ELSE o.name = row.name \/ o.slug = row.slug

\* <Lookup>.save: "if not self.slug: self.slug = slugify(self.name)", then
\* super().save(); id = Null for an instance not yet stored
Lookup_save(db, id, row) ==
    LET derived == IF row.slug = <<>>
                   THEN [row EXCEPT !.slug = slugify(row.name)]
                   ELSE row
        pk == IF id = Null THEN db.seq.lookup ELSE id
    IN IF LookupUniqueViolated(db, id, derived)
       THEN Raise(db, "IntegrityError")
       ELSE [db EXCEPT !.lookups = Put(db.lookups, pk, derived),
                       !.seq.lookup = IF id = Null THEN @ + 1 ELSE @]

\* the parent a form may carry: a stored Category for a SubCategory
ValidParent(kind, category) ==
    IF kind = "subcategory" THEN category \in Categories(DB) ELSE category = Null

\* entities ever stored, lookups and products together
Entities == (seq.lookup - 1) + Cardinality(DOMAIN products)

\* the admin add form of a lookup entity; slug is the form's slug field
lookup_add(kind, name, slug, category) ==
    /\ Entities < MaxEntities
    /\ ValidParent(kind, category)
    /\ LET saved == Lookup_save(DB, Null, Lookup(kind, name, slug, category))
       IN IF Failed(saved)
          THEN /\ response' = Answer("lookup_add", 400, saved.error, 0)
               /\ UNCHANGED <<products, images, videos, lookups, seq>>
          ELSE /\ Commit(saved)
               /\ response' = Answer("lookup_add", 201, "added", 0)
    /\ OthersUnchanged

\* the admin change form of a lookup entity: load, assign name and slug, save
lookup_change(id, name, slug) ==
    /\ id \in DOMAIN lookups
    /\ LET saved == Lookup_save(DB, id, [lookups[id] EXCEPT !.name = name,
                                                            !.slug = slug])
       IN IF Failed(saved)
          THEN /\ response' = Answer("lookup_change", 400, saved.error, 0)
               /\ UNCHANGED <<products, images, videos, lookups, seq>>
          ELSE /\ Commit(saved)
               /\ response' = Answer("lookup_change", 200, "changed", 0)
    /\ OthersUnchanged

\* the admin change form of a Product: load, assign title and slug, save
product_change(id, title, slug) ==
    /\ id \in DOMAIN products
    /\ LET saved == Product_save(DB, id, [products[id] EXCEPT !.title = title,
                                                             !.slug = slug])
       IN IF Failed(saved)
          THEN /\ response' = Answer("product_change", 400, saved.error, 0)
               /\ UNCHANGED <<products, images, videos, lookups, seq>>
          ELSE /\ Commit(saved)
               /\ response' = Answer("product_change", 200, "changed", 0)
    /\ OthersUnchanged

----------------------------------------------------------------------------
(* The upload_products management command *)

\* --platform default, and the names used for an entry that gives none
Amazon == <<"A", "m", "a", "z", "o", "n">>
Unknown == <<"U", "n", "k", "n", "o", "w", "n">>
Uncategorized == <<"U", "n", "c", "a", "t", "e", "g", "o", "r", "i", "z", "e", "d">>
General == <<"G", "e", "n", "e", "r", "a", "l">>

\* <Lookup>.objects.get_or_create(name=name[, category=category]): the stored
\* row, or a new one saved; obj is its id
get_or_create(db, kind, name, category) ==
    LET found == {q \in DOMAIN db.lookups :
                     /\ db.lookups[q].kind = kind
                     /\ db.lookups[q].name = name
                     /\ db.lookups[q].category = category}
    IN IF found # {}
       THEN [db |-> db, obj |-> CHOOSE q \in found : TRUE]
       ELSE [db |-> Lookup_save(db, Null, Lookup(kind, name, <<>>, category)),
             obj |-> db.seq.lookup]

\* media URLs of an entry: a URL, or white space only
Urls == {"u", " "}

\* str.strip() of a URL
Strip(url) == IF url = " " THEN "" ELSE url

\* a JSON null in a list of URLs: it has no strip()
JsonNull == "null"

\* process_images: for index, image_url in enumerate(image_urls)
RECURSIVE UploadImages(_, _, _, _)
UploadImages(db, p, image_urls, index) ==
    IF index > Len(image_urls) \/ Failed(db) THEN db
    ELSE UploadImages(IF image_urls[index] = JsonNull
                      THEN Raise(db, "AttributeError")
                      ELSE IF Strip(image_urls[index]) # ""
                      THEN ProductImage_save(db, Null, Media(p, index = 1))
                      ELSE db,
                      p, image_urls, index + 1)

process_images(db, p, image_urls, update_existing) ==
    UploadImages(IF update_existing THEN DeleteImagesOf(db, p) ELSE db,
                 p, image_urls, 1)

\* process_videos: for index, video_url in enumerate(video_urls)
RECURSIVE UploadVideos(_, _, _, _)
UploadVideos(db, p, video_urls, index) ==
    IF index > Len(video_urls) \/ Failed(db) THEN db
    ELSE UploadVideos(IF video_urls[index] = JsonNull
                      THEN Raise(db, "AttributeError")
                      ELSE IF Strip(video_urls[index]) # ""
                      THEN ProductVideo_save(db, Null, Media(p, index = 1))
                      ELSE db,
                      p, video_urls, index + 1)

process_videos(db, p, video_urls, update_existing) ==
    UploadVideos(IF update_existing THEN DeleteVideosOf(db, p) ELSE db,
                 p, video_urls, 1)

\* an entry of the JSON file; product_asin Null and title <<>> stand for a
\* missing or blank value; the entry names no tags
UploadEntry(asin, title, image_urls, video_urls) ==
    [product_asin |-> asin, title |-> title,
     images |-> image_urls, videos |-> video_urls, tags |-> <<>>]

\* an entry with a list of tag names
TaggedEntry(asin, title, image_urls, video_urls, tag_names) ==
    [UploadEntry(asin, title, image_urls, video_urls) EXCEPT !.tags = tag_names]

\* for tag_name in tag_names: Tag.objects.get_or_create(name=tag_name); the
\* names are sent without surrounding white space, a blank one is skipped
RECURSIVE UploadTags(_, _, _)
UploadTags(db, tag_names, tags) ==
    IF tag_names = <<>> \/ Failed(db) THEN [db |-> db, tags |-> tags]
    ELSE IF Head(tag_names) = <<>> THEN UploadTags(db, Tail(tag_names), tags)
    ELSE LET tag == get_or_create(db, "tag", Head(tag_names), Null)
         IN UploadTags(tag.db, Tail(tag_names), tags \cup {tag.obj})

\* product.tags.set(tags): the rows of the tags relation of product p
TagsSet(db, p, tags) ==
    LET row == db.products[p]
    IN [db EXCEPT !.products[p] =
           [x \in DOMAIN row \cup {"tags"} |-> IF x = "tags" THEN tags ELSE row[x]]]

\* process_product: the entry names no brand, category or sub_category
process_product(db, data, platform, update_existing) ==
    LET existing == {q \in DOMAIN db.products :
                        db.products[q].product_asin = data.product_asin}
        brand == get_or_create(db, "brand", Unknown, Null)
        category == get_or_create(brand.db, "category", Uncategorized, Null)
        sub_category == get_or_create(category.db, "subcategory", General,
                                      category.obj)
        id == IF existing # {} THEN CHOOSE q \in existing : TRUE
              ELSE FreshProductId(db)
        product == IF existing # {}
                   THEN [db.products[id] EXCEPT !.title = data.title,
                                                !.published = TRUE,
                                                !.active = TRUE]
                   ELSE NewProduct(data.product_asin, data.title, TRUE, TRUE)
        saved == Product_save(sub_category.db, id, product)
        tagged == UploadTags(saved, data.tags, {})
        images_done == process_images(IF data.tags # <<>>
                                      THEN TagsSet(tagged.db, id, tagged.tags)
                                      ELSE saved,
                                      id, data.images, update_existing)
    IN IF data.product_asin = Null \/ data.title = <<>> THEN Raise(db, "ValueError")
       ELSE IF existing # {} /\ ~update_existing THEN Raise(db, "ValueError")
       ELSE IF Failed(brand.db) THEN brand.db
       ELSE IF Failed(category.db) THEN category.db
       ELSE IF Failed(sub_category.db) THEN sub_category.db
       ELSE IF Failed(saved) THEN saved
       ELSE IF data.tags # <<>> /\ Failed(tagged.db) THEN tagged.db
       ELSE IF Failed(images_done) THEN images_done
       ELSE process_videos(images_done, id, data.videos, update_existing)

\* mutant: an entry that raises keeps what it wrote before
RECURSIVE ProcessEntries_NoAtomic(_, _, _, _)
ProcessEntries_NoAtomic(db, data, platform, update_existing) ==
    IF data = <<>> THEN db
    ELSE LET done == process_product(db, Head(data), platform, update_existing)
         IN ProcessEntries_NoAtomic([done EXCEPT !.error = ""],
                                    Tail(data), platform, update_existing)

\* handle: for index, product_data in enumerate(data, 1), each entry in a
\* transaction.atomic() of its own; an entry that raises is rolled back
RECURSIVE ProcessEntries(_, _, _, _)
ProcessEntries(db, data, platform, update_existing) ==
    IF data = <<>> THEN db
    ELSE LET done == process_product(db, Head(data), platform, update_existing)
         IN ProcessEntries(IF Failed(done) THEN db ELSE done,
                           Tail(data), platform, update_existing)

\* what handle writes to stdout for each entry: "" for one processed, the
\* name of the exception for one that raised
RECURSIVE Outcomes(_, _, _, _)
Outcomes(db, data, platform, update_existing) ==
    IF data = <<>> THEN <<>>
    ELSE LET done == process_product(db, Head(data), platform, update_existing)
         IN <<done.error>> \o Outcomes(IF Failed(done) THEN db ELSE done,
                                       Tail(data), platform, update_existing)

\* manage.py upload_products <json_file> [--platform] [--update] [--dry-run];
\* code is the exit status
upload_products(data, platform_name, update_existing, dry_run) ==
    /\ LET platform == get_or_create(DB, "platform", platform_name, Null)
       IN IF Failed(platform.db)
          THEN /\ response' = Answer("upload_products", 1, platform.db.error, 0)
               /\ UNCHANGED <<products, images, videos, lookups, seq>>
          ELSE /\ Commit(IF dry_run THEN platform.db
                         ELSE ProcessEntries(platform.db, data, platform.obj,
                                             update_existing))
               /\ response' = [op |-> "upload_products", code |-> 0,
                               msg |-> IF dry_run THEN "dry run" ELSE "processed",
                               id |-> 0, found |-> Len(data),
                               out |-> IF dry_run THEN <<>>
                                       ELSE Outcomes(platform.db, data, platform.obj,
                                                     update_existing)]
    /\ OthersUnchanged

----------------------------------------------------------------------------
(* Retrieval by id or slug: ProductViewSet.retrieve *)

HexDigits == Digits \cup {"a", "b", "c", "d", "e", "f", "A", "B", "C", "D", "E", "F"}

\* n copies of character c
Rep(c, n) == [i \in 1..n |-> c]

\* str(product.id): the canonical 8-4-4-4-12 form of a version-4 UUID
UuidStr(id) ==
    Rep("0", 8) \o <<"-">> \o Rep("0", 4) \o <<"-", "4">> \o Rep("0", 3) \o
    <<"-", "8">> \o Rep("0", 3) \o <<"-">> \o Rep("0", 11) \o <<DigitChar(id)>>

\* other spellings of the same UUID that uuid.UUID() accepts
UuidHex(id) == RemoveChar(UuidStr(id), "-")
UuidBraced(id) == <<"{">> \o UuidStr(id) \o <<"}">>

\* str.strip('{}')
RECURSIVE StripBraces(_)
StripBraces(s) ==
    IF s = <<>> THEN <<>>
    ELSE IF Head(s) \in {"{", "}"} THEN StripBraces(Tail(s))
    ELSE IF s[Len(s)] \in {"{", "}"} THEN StripBraces(SubSeq(s, 1, Len(s) - 1))
    ELSE s

\* UUIDField.to_python(pk) -> uuid.UUID(hex=pk): the 32 hex digits, or <<>> for
\* the ValidationError of a string that is no UUID
ParseUuid(pk) ==
    LET hex == RemoveChar(StripBraces(pk), "-")
    IN IF Len(hex) = 32 /\ \A i \in 1..32 : hex[i] \in HexDigits
       THEN Lower(hex) ELSE <<>>

\* get_object_or_404(self.get_queryset(), pk=pk); an invalid pk raises, and the
\* bare except answers 404 as for no match
FindByPk(pk) ==
    {q \in Visible : ParseUuid(pk) # <<>> /\ ParseUuid(pk) = UuidHex(q)}

\* get_object_or_404(self.get_queryset(), slug=pk)
FindBySlug(pk) == {q \in Visible : products[q].slug = pk}

\* retrieve: pk.replace('-', '').replace('_', '').isalnum() and len(pk) > 10
LikelySlug(pk) ==
    IsAlnum(RemoveChar(RemoveChar(pk, "-"), "_")) /\ Len(pk) > 10

\* GET /products/<pk>/
retrieve(pk) ==
    /\ LET found == IF LikelySlug(pk) THEN FindBySlug(pk) ELSE FindByPk(pk)
       IN response' = IF found = {}
                      THEN Answer("retrieve", 404, "Product not found", 0)
                      ELSE Answer("retrieve", 200, "ok", CHOOSE q \in found : TRUE)
    /\ UNCHANGED <<products, images, videos, lookups, seq>>
    /\ OthersUnchanged

\* keys a client may ask for: the spellings of each id, and each stored slug;
\* the route needs a non-empty key
RetrieveKeys ==
    ({UuidStr(q) : q \in ProductIds} \cup {UuidHex(q) : q \in ProductIds}
       \cup {UuidBraced(q) : q \in ProductIds}
       \cup {products[q].slug : q \in DOMAIN products}) \ {<<>>}

----------------------------------------------------------------------------
(* Media written by one handler at a time *)

\* the is_featured values of an images_data / videos_data list
MediaData == {<<>>} \cup {<<a>> : a \in BOOLEAN} \cup {<<a, b>> : a, b \in BOOLEAN}

MediaTitle == <<"A">>

InitCatalog ==
    /\ subs = NoRows
    /\ seq = InitSeq
    /\ clock = 1
    /\ response = NoResponse
    /\ products = NoRows
    /\ images = NoRows
    /\ videos = NoRows
    /\ lookups = NoRows
    /\ writers = NoRows

\* room left in the bounded tables for n more images and m more videos
Room(n, m) == (seq.image - 1) + n + (seq.video - 1) + m <= MaxMedia

\* URL lists of an uploaded entry
UrlLists == {<<>>, <<"u", "u">>, <<" ", "u">>}

\* entries of an uploaded file: with a new code, a stored one, or none
UploadEntries ==
    {UploadEntry(asin, MediaTitle, image_urls, video_urls) :
        asin \in {Null} \cup AsinInputs, image_urls \in UrlLists,
        video_urls \in {<<>>, <<"u">>}}

\* uploaded files: no entry, or one
Batches == {<<>>} \cup {<<e>> : e \in UploadEntries}

\* number of URLs in the entries of a file
RECURSIVE UrlCount(_, _)
UrlCount(data, field) ==
    IF data = <<>> THEN 0
    ELSE Len(Head(data)[field]) + UrlCount(Tail(data), field)

\* number of entries of a file whose product_asin no stored product has
RECURSIVE NewCount(_)
NewCount(data) ==
    IF data = <<>> THEN 0
    ELSE (IF \E q \in DOMAIN products :
                products[q].product_asin = Head(data).product_asin
          THEN 0 ELSE 1) + NewCount(Tail(data))

NextMedia ==
    \/ \E asin \in AsinInputs, imgs \in MediaData, vids \in MediaData :
          /\ Cardinality(DOMAIN products) < MaxMediaProducts
          /\ Room(Len(imgs), Len(vids))
          /\ product_create(asin, MediaTitle, TRUE, TRUE, imgs, vids)
    \/ \E id \in DOMAIN products, ig \in BOOLEAN, imgs \in MediaData,
          vg \in BOOLEAN, vids \in MediaData :
          /\ Room(IF ig THEN Len(imgs) ELSE 0, IF vg THEN Len(vids) ELSE 0)
          /\ ~ig => imgs = <<>>
          /\ ~vg => vids = <<>>
          /\ product_update(id, MediaTitle, TRUE, TRUE, ig, imgs, vg, vids)
    \/ \E id \in DOMAIN products : product_delete(id)
    \/ \E p \in DOMAIN products, f \in BOOLEAN : Room(1, 0) /\ image_create(p, f)
    \/ \E i \in DOMAIN images, p \in DOMAIN products, f \in BOOLEAN : image_update(i, p, f)
    \/ \E i \in DOMAIN images : image_delete(i)
    \/ \E p \in DOMAIN products, f \in BOOLEAN : Room(0, 1) /\ video_create(p, f)
    \/ \E i \in DOMAIN videos, p \in DOMAIN products, f \in BOOLEAN : video_update(i, p, f)
    \/ \E i \in DOMAIN videos : video_delete(i)
    \/ \E data \in Batches, update_existing \in BOOLEAN, dry_run \in BOOLEAN :
          /\ Cardinality(DOMAIN products) + NewCount(data) <= MaxMediaProducts
          /\ Room(UrlCount(data, "images"), UrlCount(data, "videos"))
          /\ upload_products(data, Amazon, update_existing, dry_run)

SpecMedia == InitCatalog /\ [][NextMedia]_vars

\* featured images / videos of product p
FeaturedImages(p) == {i \in DOMAIN images : images[i].product = p /\ images[i].is_featured}
FeaturedVideos(p) == {i \in DOMAIN videos : videos[i].product = p /\ videos[i].is_featured}

\* C1: after any sequence of image and video creates, updates and deletes
\* done one at a time through save(), every product has at most one featured
\* image and at most one featured video.
C1_SingleFeatured ==
    \A p \in ProductIds :
        /\ Cardinality(FeaturedImages(p)) <= 1
        /\ Cardinality(FeaturedVideos(p)) <= 1

\* C1 witness: a featured image has just been saved for a product that had
\* an older image
C1_Witness ==
    /\ response.op = "image_save"
    /\ \E p \in DOMAIN products :
         /\ \E i, j \in ImagesOf(DB, p) :
               i < j /\ images[j].is_featured /\ ~images[i].is_featured
         /\ Cardinality(FeaturedImages(p)) = 1

----------------------------------------------------------------------------
(* Products created, renamed, deleted and retrieved, one handler at a time *)

NextSlug ==
    \/ \E asin \in AsinInputs, title \in Titles :
          /\ Cardinality(DOMAIN products) < MaxProducts
          /\ product_create(asin, title, TRUE, TRUE, <<>>, <<>>)
    \/ \E id \in DOMAIN products :
          product_update(id, products[id].title, TRUE, TRUE, FALSE, <<>>, FALSE, <<>>)
    \/ \E id \in DOMAIN products : product_delete(id)

SpecSlug == InitCatalog /\ [][NextSlug]_vars

\* the n-th slug of the sequence base, base-1, base-2, ...
SlugAt(base, n) == IF n = 0 THEN base ELSE base \o <<"-">> \o IntStr(n)

StoredSlugs == {products[q].slug : q \in DOMAIN products}

\* the first slug of the sequence that no stored product has
FirstFree(base) ==
    SlugAt(base, CHOOSE n \in 0..(Cardinality(DOMAIN products) + 1) :
                    /\ SlugAt(base, n) \notin StoredSlugs
                    /\ \A m \in 0..(n - 1) : SlugAt(base, m) \in StoredSlugs)

\* products this step has saved with no slug: created, or stored with an
\* empty slug and written again
SavedWithoutSlug ==
    {id \in DOMAIN products' :
        IF id \in DOMAIN products
        THEN products[id].slug = <<>> /\ products'[id] # products[id]
        ELSE TRUE}

\* stored products with title t
Titled(t) == {q \in DOMAIN products : products[q].title = t}

\* the stored slugs of the sequence of base are exactly its first k, all held
\* by products titled t
RunOf(t, k) ==
    /\ Cardinality(Titled(t)) = k
    /\ {products[q].slug : q \in Titled(t)} = {SlugAt(slugify(t), m) : m \in 0..(k - 1)}
    /\ \A q \in DOMAIN products \ Titled(t) :
          \A m \in 0..k : products[q].slug # SlugAt(slugify(t), m)

\* C3: a product saved without a slug gets the slugified title if no stored
\* product has that slug, and otherwise the slugified title followed by -n
\* for the smallest n >= 1 that no stored product has; so the k+1-th product
\* created with a title whose k earlier ones hold base .. base-(k-1) gets
\* base-k.
C3_SlugSequence ==
    [][ \A id \in SavedWithoutSlug :
          /\ products'[id].slug = FirstFree(slugify(products'[id].title))
          /\ \A k \in 0..MaxProducts :
                id \notin DOMAIN products /\ RunOf(products'[id].title, k)
                   => products'[id].slug = SlugAt(slugify(products'[id].title), k)
      ]_vars

\* C3 witness: three products titled alike were created one after another and
\* hold base, base-1 and base-2
C3_Witness ==
    /\ response.op = "product_create" /\ response.code = 201
    /\ \E t \in Titles :
         /\ Cardinality(Titled(t)) = 3
         /\ slugify(t) # <<>>
         /\ {products[q].slug : q \in Titled(t)} = {SlugAt(slugify(t), m) : m \in 0..2}

\* the (published, active) pairs a client sends
FlagInputs == {<<TRUE, TRUE>>, <<FALSE, TRUE>>, <<TRUE, FALSE>>, <<FALSE, FALSE>>}

NextRetrieve ==
    \/ \E asin \in AsinInputs, title \in RetrieveTitles, flags \in FlagInputs :
          /\ Cardinality(DOMAIN products) < MaxRetrieveProducts
          /\ product_create(asin, title, flags[1], flags[2], <<>>, <<>>)
    \/ \E id \in DOMAIN products, flags \in FlagInputs :
          product_update(id, products[id].title, flags[1], flags[2],
                         FALSE, <<>>, FALSE, <<>>)
    \/ \E id \in DOMAIN products : product_delete(id)
    \/ \E pk \in RetrieveKeys : retrieve(pk)

SpecRetrieve == InitCatalog /\ [][NextRetrieve]_vars

\* C6: GET /products/<id>/ with the UUID of a stored published, active
\* product answers with that product.
C6_RetrieveById ==
    [][ \A p \in Visible :
          retrieve(UuidStr(p)) => response'.code = 200 /\ response'.id = p
      ]_vars

\* C7: GET /products/<slug>/ with the slug of a stored published, active
\* product answers with that product, whatever the slug's length.
C7_RetrieveBySlug ==
    [][ \A p \in Visible :
          products[p].slug # <<>> /\ retrieve(products[p].slug)
             => response'.code = 200 /\ response'.id = p
      ]_vars

----------------------------------------------------------------------------
(* Entities added and renamed, one handler at a time *)

\* titles of the renamed products
EntityTitles == { <<"A">>, <<"C">> }

NextEntity ==
    \/ \E kind \in Kinds, name \in Names, slug \in {<<>>, TypedSlug},
          category \in {Null} \cup Categories(DB) :
          lookup_add(kind, name, slug, category)
    \/ \E id \in DOMAIN lookups, name \in Names :
          \E slug \in {lookups[id].slug, <<>>, TypedSlug} :
             lookup_change(id, name, slug)
    \/ \E asin \in AsinInputs, title \in EntityTitles :
          /\ Entities < MaxEntities
          /\ product_create(asin, title, TRUE, TRUE, <<>>, <<>>)
    \/ \E id \in DOMAIN products, title \in EntityTitles :
          product_update(id, title, TRUE, TRUE, FALSE, <<>>, FALSE, <<>>)
    \/ \E id \in DOMAIN products, title \in EntityTitles :
          \E slug \in {products[id].slug, <<>>, TypedSlug} :
             product_change(id, title, slug)
    \/ \E id \in DOMAIN products : product_delete(id)

SpecEntity == InitCatalog /\ [][NextEntity]_vars

\* a product or lookup entity whose non-empty slug this step has changed
SlugChanged(before, after, id) ==
    /\ before[id].slug # <<>>
    /\ id \in DOMAIN after
    /\ after[id].slug # before[id].slug

\* C5: no save of a lookup entity or of a product that carries its stored,
\* non-empty slug changes that slug, whatever name or title the save carries
\* (a step that changes it is not such a save); a stored non-empty slug
\* changes only when the admin form carries another slug, or none, and then
\* it is derived anew.
C5_SlugKept ==
    [][ /\ \A id \in DOMAIN lookups :
              SlugChanged(lookups, lookups', id)
                 => /\ \A name \in Names :
                          ~lookup_change(id, name, lookups[id].slug)
                    /\ \E name \in Names, slug \in {<<>>, TypedSlug} :
                          slug # lookups[id].slug /\ lookup_change(id, name, slug)
        /\ \A id \in DOMAIN products :
              SlugChanged(products, products', id)
                 => /\ \A title \in EntityTitles :
                          /\ ~product_update(id, title, TRUE, TRUE,
                                             FALSE, <<>>, FALSE, <<>>)
                          /\ ~product_change(id, title, products[id].slug)
                    /\ \E title \in EntityTitles, slug \in {<<>>, TypedSlug} :
                          slug # products[id].slug /\ product_change(id, title, slug)
        /\ \A id \in DOMAIN lookups :
              response'.op = "lookup_change" /\ response'.code = 200
                 => id \in DOMAIN lookups'
        /\ \A id \in DOMAIN products :
              response'.op \in {"product_update", "product_change"}
                 => id \in DOMAIN products'
      ]_vars

\* C5 witness: a product derived its slug from one title and now carries
\* another after an update, beside a lookup entity that was renamed and
\* still has the slug of its first name
C5_Witness ==
    /\ response.op = "product_update" /\ response.code = 200
    /\ \E p \in DOMAIN products :
         products[p].slug = <<"a">> /\ products[p].title = <<"C">>
    /\ \E q \in DOMAIN lookups :
         lookups[q].slug = <<"b", "-", "b">> /\ lookups[q].name = <<"C">>

----------------------------------------------------------------------------
(* Media written by concurrent handlers: each statement of save() is a step *)

Writers == 1..MaxWriters

Idle == [pc |-> "idle", kind |-> "", id |-> 0, row |-> Media(0, FALSE)]

\* the table a writer's instance belongs to
TableOf(kind) == IF kind = "image" THEN images ELSE videos

\* instances built and not yet inserted
InFlightNew == {w \in Writers : writers[w].pc # "idle" /\ writers[w].id = 0}

\* a handler builds an instance (id = 0), or loads row id and assigns its
\* fields, and calls save()
save_begin(w, kind, id, p, is_featured) ==
    /\ writers[w].pc = "idle"
    /\ p \in DOMAIN products
    /\ id # 0 => id \in DOMAIN TableOf(kind)
    /\ id = 0 => Room(Cardinality(InFlightNew) + 1, 0)
    /\ writers' = [writers EXCEPT ![w] =
                     [pc |-> "clear", kind |-> kind, id |-> id,
                      row |-> Media(p, is_featured)]]
    /\ UNCHANGED <<subs, seq, clock, response, products, images, videos, lookups>>

\* save(): "if self.is_featured: <table>.objects.filter(...).exclude(id=self.id)
\* .update(is_featured=False)"
save_clear(w) ==
    /\ writers[w].pc = "clear"
    /\ LET me == writers[w]
       IN /\ images' = IF me.kind = "image" /\ me.row.is_featured
                       THEN ClearFeatured(images, me.row.product, me.id)
                       ELSE images
          /\ videos' = IF me.kind = "video" /\ me.row.is_featured
                       THEN ClearFeatured(videos, me.row.product, me.id)
                       ELSE videos
    /\ writers' = [writers EXCEPT ![w].pc = "persist"]
    /\ UNCHANGED <<subs, seq, clock, response, products, lookups>>

\* save(): "super().save(*args, **kwargs)", the INSERT or UPDATE of the row
save_persist(w) ==
    /\ writers[w].pc = "persist"
    /\ LET me == writers[w]
           pk == IF me.id # 0 THEN me.id
                 ELSE IF me.kind = "image" THEN seq.image ELSE seq.video
       IN /\ images' = IF me.kind = "image" THEN Put(images, pk, me.row) ELSE images
          /\ videos' = IF me.kind = "video" THEN Put(videos, pk, me.row) ELSE videos
          /\ seq' = IF me.id # 0 THEN seq
                    ELSE IF me.kind = "image"
                         THEN [seq EXCEPT !.image = seq.image + 1]
                         ELSE [seq EXCEPT !.video = seq.video + 1]
    /\ writers' = [writers EXCEPT ![w] = Idle]
    /\ UNCHANGED <<subs, clock, response, products, lookups>>

\* the store after one product has been created
InitMediaConc ==
    /\ subs = NoRows
    /\ seq = InitSeq
    /\ clock = 1
    /\ response = NoResponse
    /\ products = Product_save([products |-> NoRows, error |-> ""], 1,
                               NewProduct(1, MediaTitle, TRUE, TRUE)).products
    /\ images = NoRows
    /\ videos = NoRows
    /\ lookups = NoRows
    /\ writers = [w \in Writers |-> Idle]

NextMediaConc ==
    \/ \E w \in Writers, kind \in {"image", "video"}, p \in DOMAIN products,
          f \in BOOLEAN :
          \E id \in {0} \cup DOMAIN TableOf(kind) : save_begin(w, kind, id, p, f)
    \/ \E w \in Writers : save_clear(w)
    \/ \E w \in Writers : save_persist(w)

SpecMediaConc == InitMediaConc /\ [][NextMediaConc]_vars

\* C2: once all concurrent saves have completed, every product has at most
\* one featured image and at most one featured video.
C2_SingleFeaturedAfterConcurrentSaves ==
    (\A w \in Writers : writers[w].pc = "idle") => C1_SingleFeatured

----------------------------------------------------------------------------
(* Products created by concurrent handlers: each query of save() is a step *)

\* a handler with no request in hand
NoCreate ==
    [pc |-> "idle", row |-> NewProduct(0, <<>>, TRUE, TRUE),
     base_slug |-> <<>>, slug |-> <<>>, counter |-> 1]

\* creations begun and not yet inserted
InFlightCreates == {w \in Writers : writers[w].pc # "idle"}

\* product_asin values stored or carried by a creation in flight
AsinsInUse ==
    {products[q].product_asin : q \in DOMAIN products}
       \cup {writers[w].row.product_asin : w \in InFlightCreates}

\* the clients send distinct product_asin codes: the smallest one not in use
FreshAsin ==
    CHOOSE a \in 1..(Cardinality(AsinsInUse) + 1) :
        a \notin AsinsInUse /\ \A b \in 1..(a - 1) : b \in AsinsInUse

\* POST /products/ reaches Product.save: base_slug = slugify(self.title),
\* slug = base_slug, counter = 1
create_begin(w, title) ==
    /\ writers[w].pc = "idle"
    /\ Cardinality(DOMAIN products) + Cardinality(InFlightCreates) < MaxConcProducts
    /\ writers' = [writers EXCEPT ![w] =
                     [pc |-> "check",
                      row |-> NewProduct(FreshAsin, title, TRUE, TRUE),
                      base_slug |-> slugify(title), slug |-> slugify(title),
                      counter |-> 1]]
    /\ UNCHANGED <<subs, seq, clock, response, products, images, videos, lookups>>

\* one test of "while Product.objects.filter(slug=slug).exists()", then the
\* loop body, or the assignment self.slug = slug after the loop
create_check(w) ==
    /\ writers[w].pc = "check"
    /\ LET me == writers[w]
       IN writers' = [writers EXCEPT ![w] =
                        IF SlugExists(DB, me.slug)
                        THEN [me EXCEPT !.slug = me.base_slug \o <<"-">> \o
                                                    IntStr(me.counter),
                                        !.counter = me.counter + 1]
                        ELSE [me EXCEPT !.row.slug = me.slug, !.pc = "insert"]]
    /\ UNCHANGED <<subs, seq, clock, response, products, images, videos, lookups>>

\* super().save(): the INSERT, under the unique constraints
create_insert(w) ==
    /\ writers[w].pc = "insert"
    /\ LET saved == WriteProduct(DB, FreshProductId(DB), writers[w].row)
       IN IF Failed(saved)
          THEN /\ response' = Answer("product_create", 500, saved.error, 0)
               /\ UNCHANGED <<products, images, videos, lookups, seq>>
          ELSE /\ Commit(saved)
               /\ response' = Answer("product_create", 201, "created", 0)
    /\ writers' = [writers EXCEPT ![w] = NoCreate]
    /\ UNCHANGED <<subs, clock>>

\* titles of the concurrent creations: the slug of the second is the first
\* suffixed slug of the first
ConcTitles == { <<"A">>, <<"A", " ", "1">> }

InitSlugConc ==
    /\ subs = NoRows
    /\ seq = InitSeq
    /\ clock = 1
    /\ response = NoResponse
    /\ products = NoRows
    /\ images = NoRows
    /\ videos = NoRows
    /\ lookups = NoRows
    /\ writers = [w \in Writers |-> NoCreate]

NextSlugConc ==
    \/ \E w \in Writers, title \in ConcTitles : create_begin(w, title)
    \/ \E w \in Writers : create_check(w)
    \/ \E w \in Writers : create_insert(w)
    \/ \E id \in DOMAIN products : product_delete(id)

SpecSlugConc == InitSlugConc /\ [][NextSlugConc]_vars

\* no two stored products share a slug
SlugsDistinct ==
    \A p, q \in DOMAIN products : p # q => products[p].slug # products[q].slug

\* C4: in every reachable state of concurrent creations, no two stored
\* products share a slug, and an INSERT of a slug that a stored product
\* already has is rejected and persists nothing.
C4_UniqueSlugs ==
    [][ /\ SlugsDistinct'
        /\ \A w \in Writers :
              create_insert(w) /\ SlugExists(DB, writers[w].row.slug)
                 => products' = products /\ response'.code = 500
      ]_vars

\* C4 witness: two creations of one title passed the exists-check together;
\* one was stored and the other has just been rejected
C4_Witness ==
    /\ response.op = "product_create" /\ response.code = 500
    /\ products # NoRows
    /\ \A w \in Writers : writers[w].pc = "idle"

----------------------------------------------------------------------------
(* The subscription lifecycle: claims C8 - C10 *)

\* rows present before and after a step
Kept == SubIds \cap DOMAIN subs'

\* C8: a subscription created through the public subscribe endpoint starts
\* pending and unverified; verifying a pending, unverified subscription by its
\* token makes it active and verified; unsubscribing an active, verified
\* subscription by its e-mail (in any letter case) makes it unsubscribed
\* with unsubscribed_at set.
C8_CreateVerifyUnsubscribe ==
    [][ /\ \A value \in Emails :
             /\ response'.op = "subscribe" /\ response'.code = 201
             /\ subscribe(value, TRUE)
             => /\ response'.id \notin SubIds
                /\ subs'[response'.id].status = "pending"
                /\ ~subs'[response'.id].is_verified
                /\ subs'[response'.id].unsubscribed_at = Null
        /\ \A i \in SubIds :
             /\ response'.op = "verify"
             /\ subs[i].status = "pending" /\ ~subs[i].is_verified
             /\ verify_email_subscription(subs[i].verification_token)
             => /\ subs'[i].status = "active"
                /\ subs'[i].is_verified
                /\ response'.code = 200
        /\ \A i \in SubIds, value \in Emails :
             /\ response'.op = "unsubscribe"
             /\ subs[i].status = "active" /\ subs[i].is_verified
             /\ Lower(value) = subs[i].email
             /\ unsubscribe_email(value, NoToken)
             => /\ subs'[i].status = "unsubscribed"
                /\ subs'[i].unsubscribed_at # Null
                /\ subs'[i].is_verified
                /\ response'.code = 200
      ]_vars

\* C8 witness: a verified subscription has just been unsubscribed through the
\* public endpoint
C8_Witness ==
    /\ response.op = "unsubscribe" /\ response.msg = "unsubscribed"
    /\ response.id \in SubIds
    /\ subs[response.id].is_verified
    /\ subs[response.id].status = "unsubscribed"
    /\ subs[response.id].unsubscribed_at # Null

\* the admin operations that set status to active
ActivatingOps ==
    {"admin_resubscribe", "admin_verify", "mark_as_active", "verify_selected",
     "admin_change"}

\* C9 as stated: an unsubscribed subscription returns to active only through
\* admin resubscribe, and the public verify endpoint called with the token of
\* an unsubscribed subscription never makes it active.
C9_OnlyResubscribeReactivates ==
    [][ \A i \in Kept :
          /\ subs[i].status = "unsubscribed" /\ subs'[i].status = "active"
               => response'.op = "admin_resubscribe"
          /\ subs[i].status = "unsubscribed"
               /\ verify_email_subscription(subs[i].verification_token)
               => subs'[i].status # "active"
      ]_vars

\* C9 amended: an unsubscribed subscription returns to active through admin
\* resubscribe, the admin verify view, the bulk actions, the admin change
\* form, or the public verify endpoint when is_verified is false; the public
\* verify endpoint called with the token of an unsubscribed subscription that
\* is already verified changes nothing.
C9_VerifiedUnsubscribedStays ==
    [][ \A i \in Kept :
          /\ subs[i].status = "unsubscribed" /\ subs'[i].status = "active"
               => \/ response'.op \in ActivatingOps
                  \/ response'.op = "verify" /\ response'.id = i
                       /\ ~subs[i].is_verified
          /\ subs[i].status = "unsubscribed" /\ subs[i].is_verified
               /\ verify_email_subscription(subs[i].verification_token)
               => subs' = subs /\ response'.code = 200
          /\ subs[i].status = "unsubscribed" /\ ~subs[i].is_verified
               /\ verify_email_subscription(subs[i].verification_token)
               => subs'[i].status = "active"
      ]_vars

\* C9 witness: the public verify endpoint has answered for an unsubscribed,
\* verified subscription
C9_Witness ==
    /\ response.op = "verify" /\ response.msg = "already verified"
    /\ response.id \in SubIds
    /\ subs[response.id].status = "unsubscribed"

\* the operations C10 lists
ListedOps ==
    {"subscribe", "verify", "unsubscribe", "admin_verify", "admin_unsubscribe",
     "admin_resubscribe", "mark_as_active", "mark_as_unsubscribed",
     "verify_selected", "send_verification_email"}

\* C10 as stated: no listed operation moves a subscription into bounced, and
\* none changes the status of a bounced subscription.
C10_BouncedTerminal ==
    [][ /\ \A i \in DOMAIN subs' :
             subs'[i].status = "bounced" /\ (i \in SubIds => subs[i].status # "bounced")
               => response'.op = "admin_change"
        /\ \A i \in Kept :
             subs[i].status = "bounced" /\ subs'[i].status # "bounced"
               => response'.op = "admin_change"
      ]_vars

\* C10 amended: no listed operation moves a subscription into bounced (only
\* the admin change form does); a bounced subscription is not frozen: the
\* public unsubscribe endpoint makes it unsubscribed, and the public verify
\* endpoint makes it active when it is unverified.
C10_NoListedOpBounces ==
    [][ /\ \A i \in DOMAIN subs' :
             subs'[i].status = "bounced" /\ (i \in SubIds => subs[i].status # "bounced")
               => response'.op = "admin_change"
        /\ \A i \in Kept :
             /\ subs[i].status = "bounced"
                  /\ unsubscribe_email(NoEmail, subs[i].verification_token)
                  => subs'[i].status = "unsubscribed"
             /\ subs[i].status = "bounced" /\ ~subs[i].is_verified
                  /\ verify_email_subscription(subs[i].verification_token)
                  => subs'[i].status = "active"
      ]_vars

\* C10 witness: a listed operation has run while a bounced subscription exists
\* and has left it bounced
C10_Witness ==
    /\ response.op \in ListedOps
    /\ \E i \in SubIds : subs[i].status = "bounced"

\* C11: the public verify endpoint, called with the token of a subscription
\* whose is_verified is already true, leaves that subscription's status,
\* is_verified and unsubscribed_at as they were, whatever the status, and
\* answers 200.
C11_VerifyVerifiedIsNoOp ==
    [][ \A i \in SubIds :
          /\ response'.op = "verify"
          /\ subs[i].is_verified
          /\ verify_email_subscription(subs[i].verification_token)
          => /\ subs'[i].status = subs[i].status
             /\ subs'[i].is_verified
             /\ subs'[i].unsubscribed_at = subs[i].unsubscribed_at
             /\ response'.code = 200
      ]_vars

\* C11 witness: the public verify endpoint has answered for a verified
\* subscription that is not active
C11_Witness ==
    /\ response.op = "verify" /\ response.code = 200
    /\ response.id \in SubIds
    /\ subs[response.id].is_verified
    /\ subs[response.id].status \in {"pending", "bounced", "unsubscribed"}

\* the requests that name subscription i: its token, with any e-mail, or no
\* token and its e-mail in any letter case
Names_i(i, email, token) ==
    \/ token = subs[i].verification_token
    \/ token = NoToken /\ email # NoEmail /\ Lower(email) = subs[i].email

\* C12: the public unsubscribe endpoint, called for a subscription whose
\* status is already unsubscribed, changes nothing (unsubscribed_at keeps its
\* earlier value) and answers 200 with the "already unsubscribed" message.
C12_UnsubscribeTwiceIsNoOp ==
    [][ response'.op = "unsubscribe"
        => \/ /\ subs' = subs
              /\ response'.code = 200
              /\ response'.msg = "already unsubscribed"
           \/ \A i \in SubIds, email \in Emails \cup {NoEmail}, token \in Tokens \cup {NoToken} :
                 \/ subs[i].status # "unsubscribed"
                 \/ ~Names_i(i, email, token)
                 \/ ~unsubscribe_email(email, token)
      ]_vars

\* C12 witness: the endpoint has answered "already unsubscribed" at a later
\* time than the one stamped on the row
C12_Witness ==
    /\ response.op = "unsubscribe" /\ response.msg = "already unsubscribed"
    /\ response.id \in SubIds
    /\ subs[response.id].status = "unsubscribed"
    /\ subs[response.id].unsubscribed_at # Null
    /\ subs[response.id].unsubscribed_at < clock

\* C13: whenever an unsubscribe request carries an e-mail that matches a
\* record after lower-casing, or a token that matches a record, the matched
\* record ends with status unsubscribed, also when the e-mail matches and the
\* token does not.
C13_EitherIdentifier ==
    [][ \A i \in SubIds, email \in Emails \cup {NoEmail}, token \in Tokens \cup {NoToken} :
          /\ response'.op = "unsubscribe"
          /\ \/ email # NoEmail /\ Lower(email) = subs[i].email
             \/ token = subs[i].verification_token
          /\ unsubscribe_email(email, token)
          => subs'[i].status = "unsubscribed"
      ]_vars

C15_ResubscribeFrame ==
    [][ \A i \in SubIds :
          /\ response'.op = "admin_resubscribe"
          /\ resubscribe_subscription(i)
          => /\ subs'[i] = [subs[i] EXCEPT !.status = "active",
                                           !.unsubscribed_at = Null]
             /\ subs'[i].is_verified = subs[i].is_verified
             /\ DOMAIN subs' = SubIds
             /\ \A j \in SubIds \ {i} : subs'[j] = subs[j]
      ]_vars

\* C15 witness: an unverified subscription has been reactivated while another
\* one stays unsubscribed
C15_Witness ==
    /\ response.op = "admin_resubscribe"
    /\ response.id \in SubIds
    /\ ~subs[response.id].is_verified
    /\ subs[response.id].status = "active"
    /\ subs[response.id].unsubscribed_at = Null
    /\ \E j \in SubIds \ {response.id} : subs[j].status = "unsubscribed"

\* C16: a public subscribe request whose e-mail equals a stored one up to
\* letter case fails validation and stores nothing; so no two stored
\* subscriptions agree up to letter case and every stored e-mail is
\* lower-case (stated of each row as its e-mail is written).
C16_DuplicateEmailRejected ==
    [][ /\ response'.op = "subscribe"
           => \/ response'.code = 400 /\ subs' = subs
              \/ \A value \in Emails, agree \in BOOLEAN :
                    \/ \A i \in SubIds : Lower(subs[i].email) # Lower(value)
                    \/ ~subscribe(value, agree)
        /\ \A i \in DOMAIN subs' :
             i \notin SubIds \/ subs'[i].email # subs[i].email
             => /\ subs'[i].email = Lower(subs'[i].email)
                /\ \A j \in DOMAIN subs' \ {i} :
                      Lower(subs'[i].email) # Lower(subs'[j].email)
      ]_vars

\* C16 witness: a duplicate has been refused while the stored rows are as
\* many as the bound allows
C16_Witness ==
    /\ response.op = "subscribe" /\ response.msg = "already subscribed"
    /\ Cardinality(SubIds) = MaxSubs

----------------------------------------------------------------------------
(* Concurrent public subscribe requests *)

NoSubscribe == [pc |-> "idle", email |-> <<>>]

\* requests validated and not yet inserted
InFlightSubscribes == {w \in Writers : writers[w].pc # "idle"}

\* serializer.is_valid(): validate_agree_to_terms and validate_email (the
\* exists-check); a request that passes goes on to perform_create
subscribe_validate(w, value, agree_to_terms) ==
    /\ writers[w].pc = "idle"
    /\ seq.sub + Cardinality(InFlightSubscribes) <= MaxSubs
    /\ LET email == validate_email(value)
       IN IF ~agree_to_terms \/ email = <<>>
          THEN /\ response' = Answer("subscribe", 400,
                      IF email = <<>> THEN "already subscribed" ELSE "must agree", w)
               /\ UNCHANGED writers
          ELSE /\ writers' = [writers EXCEPT ![w] = [pc |-> "insert", email |-> email]]
               /\ UNCHANGED response
    /\ UNCHANGED <<subs, seq, clock>>
    /\ UNCHANGED <<products, images, videos, lookups>>

\* serializer.save(): create lower-cases again and INSERTs under the unique
\* constraint on email; the IntegrityError of a refused INSERT is not an
\* APIException and leaves the view as a server error
subscribe_insert(w) ==
    /\ writers[w].pc = "insert"
    /\ IF EmailUniqueViolated(Lower(writers[w].email))
       THEN /\ response' = Answer("subscribe", 500, "IntegrityError", w)
            /\ UNCHANGED <<subs, seq>>
       ELSE \E token \in Tokens :
              /\ SubsByToken(token) = {}
              /\ \A t \in Tokens : SubsByToken(t) = {} => token <= t
              /\ subs' = [i \in SubIds \cup {seq.sub} |->
                            IF i = seq.sub
                            THEN NewSubscription(Lower(writers[w].email), token)
                            ELSE subs[i]]
              /\ seq' = [seq EXCEPT !.sub = seq.sub + 1]
              /\ response' = Answer("subscribe", 201, "created", w)
    /\ writers' = [writers EXCEPT ![w] = NoSubscribe]
    /\ UNCHANGED clock
    /\ UNCHANGED <<products, images, videos, lookups>>

InitSubConc ==
    /\ subs = NoRows
    /\ seq = InitSeq
    /\ clock = 1
    /\ response = NoResponse
    /\ products = NoRows
    /\ images = NoRows
    /\ videos = NoRows
    /\ lookups = NoRows
    /\ writers = [w \in Writers |-> NoSubscribe]

NextSubConc ==
    \/ \E w \in Writers, value \in Emails, agree \in BOOLEAN :
          subscribe_validate(w, value, agree)
    \/ \E w \in Writers : subscribe_insert(w)
    \/ \E token \in Tokens : verify_email_subscription(token)

SpecSubConc == InitSubConc /\ [][NextSubConc]_vars

\* C17: when subscribe requests for one e-mail interleave their exists-check
\* and INSERT, at most one row for that e-mail is ever stored, and the
\* request whose INSERT is refused is answered with a validation (4xx) error.
C17_ConcurrentSubscribe ==
    [][ /\ \A i, j \in DOMAIN subs' : i # j => subs'[i].email # subs'[j].email
        /\ \A w \in Writers :
              /\ writers[w].pc = "insert"
              /\ EmailUniqueViolated(Lower(writers[w].email))
              /\ subscribe_insert(w)
              => /\ subs' = subs
                 /\ response'.code \in 400..499
      ]_vars

----------------------------------------------------------------------------
(* Product list filter: ProductFilter.filter_queryset *)

\* NULL of the nullable DecimalField rating
NoRating == -1

\* a QuerySet over Product: the rows of its SQL joins in query order (one
\* entry per join row), its DISTINCT flag, and the exception raised while it
\* was built
Queryset(rows) == [rows |-> rows, distinct |-> FALSE, error |-> ""]

\* query_params.get(key) is not None
Present(query_params, key) == key \in DOMAIN query_params

\* "if value:" on query_params.get(key): present and not the empty string
Given(query_params, key) == Present(query_params, key) /\ query_params[key] # <<>>

\* needle is a substring of hay
Contains(hay, needle) ==
    \E i \in 0..(Len(hay) - Len(needle)) : SubSeq(hay, i + 1, i + Len(needle)) = needle

\* the __icontains lookup
icontains(field, value) == Contains(Lower(field), Lower(value))

\* the __iexact lookup
iexact(field, value) == Lower(field) = Lower(value)

\* the rows of a join: copies[p] entries for each entry p
RECURSIVE JoinRows(_, _)
JoinRows(rows, copies) ==
    IF rows = <<>> THEN <<>>
    ELSE [i \in 1..copies[Head(rows)] |-> Head(rows)] \o JoinRows(Tail(rows), copies)

\* SELECT DISTINCT: each row once, at its first place
RECURSIVE Dedupe(_)
Dedupe(rows) ==
    IF rows = <<>> THEN <<>>
    ELSE LET front == Dedupe(SubSeq(rows, 1, Len(rows) - 1))
             last == rows[Len(rows)]
         IN IF \E i \in 1..Len(front) : front[i] = last THEN front
            ELSE Append(front, last)

\* mutant: the search is run on the whole table
filter_search_WholeTable(qs, query_params) ==
    IF ~Given(query_params, "search") THEN qs
    ELSE LET Test(p) == icontains(products[p].title, query_params["search"])
         IN [qs EXCEPT !.rows = SelectSeq([p \in DOMAIN products |-> p], Test),
                       !.distinct = TRUE]

\* "if search:" the six OR-ed icontains tests, tags LEFT JOINed, .distinct()
filter_search(qs, query_params) ==
    IF ~Given(query_params, "search") THEN qs
    ELSE LET search == query_params["search"]
             OnProduct(p) ==
                 \/ icontains(products[p].title, search)
                 \/ icontains(products[p].description, search)
                 \/ icontains(lookups[products[p].brand].name, search)
                 \/ icontains(lookups[products[p].category].name, search)
                 \/ icontains(lookups[products[p].sub_category].name, search)
             OnTags(p) ==
                 {t \in products[p].tags : icontains(lookups[t].name, search)}
             copies == [p \in DOMAIN products |->
                          IF OnProduct(p)
                          THEN IF products[p].tags = {} THEN 1
                               ELSE Cardinality(products[p].tags)
                          ELSE Cardinality(OnTags(p))]
         IN [qs EXCEPT !.rows = JoinRows(qs.rows, copies), !.distinct = TRUE]

\* "if brand:" and the like: Q(<field>__name__iexact) | Q(<field>__slug__iexact)
filter_related(qs, query_params, key, field) ==
    IF ~Given(query_params, key) THEN qs
    ELSE LET Test(p) ==
                 \/ iexact(lookups[products[p][field]].name, query_params[key])
                 \/ iexact(lookups[products[p][field]].slug, query_params[key])
         IN [qs EXCEPT !.rows = SelectSeq(qs.rows, Test)]

\* str.split(sep)
RECURSIVE Split(_, _)
Split(s, sep) ==
    IF \A i \in 1..Len(s) : s[i] # sep THEN <<s>>
    ELSE LET k == CHOOSE i \in 1..Len(s) :
                      s[i] = sep /\ \A j \in 1..(i - 1) : s[j] # sep
         IN <<SubSeq(s, 1, k - 1)>> \o Split(SubSeq(s, k + 1, Len(s)), sep)

\* str.strip()
RECURSIVE StripSpaces(_)
StripSpaces(s) ==
    IF s = <<>> THEN <<>>
    ELSE IF Head(s) = " " THEN StripSpaces(Tail(s))
    ELSE IF s[Len(s)] = " " THEN StripSpaces(SubSeq(s, 1, Len(s) - 1))
    ELSE s

\* mutant: the tag join is not followed by .distinct()
filter_tags_NoDistinct(qs, query_params) ==
    IF ~Given(query_params, "tags") THEN qs
    ELSE LET entries == Split(query_params["tags"], ",")
             tag_list == {StripSpaces(entries[i]) : i \in 1..Len(entries)}
             copies == [p \in DOMAIN products |->
                          Cardinality({t \in products[p].tags :
                                          lookups[t].name \in tag_list})]
         IN [qs EXCEPT !.rows = JoinRows(qs.rows, copies)]

\* "if tags:" tags__name__in over the trimmed entries, tags INNER JOINed,
\* .distinct()
filter_tags(qs, query_params) ==
    IF ~Given(query_params, "tags") THEN qs
    ELSE LET entries == Split(query_params["tags"], ",")
             tag_list == {StripSpaces(entries[i]) : i \in 1..Len(entries)}
             copies == [p \in DOMAIN products |->
                          Cardinality({t \in products[p].tags :
                                          lookups[t].name \in tag_list})]
         IN [qs EXCEPT !.rows = JoinRows(qs.rows, copies), !.distinct = TRUE]

TrueStr == <<"t", "r", "u", "e">>

\* mutant: every non-empty value selects flag=true
filter_flag_Truthy(qs, query_params, key) ==
    IF ~Present(query_params, key) THEN qs
    ELSE LET flag == query_params[key] # <<>>
             Test(p) == products[p][key] = flag
         IN [qs EXCEPT !.rows = SelectSeq(qs.rows, Test)]

\* mutant: an absent flag is read as false
filter_flag_AbsentIsFalse(qs, query_params, key) ==
    LET flag == Present(query_params, key) /\ Lower(query_params[key]) = TrueStr
        Test(p) == products[p][key] = flag
    IN [qs EXCEPT !.rows = SelectSeq(qs.rows, Test)]

\* "if featured is not None:" filter(featured=featured.lower() == 'true'),
\* and the same for published and active
filter_flag(qs, query_params, key) ==
    IF ~Present(query_params, key) THEN qs
    ELSE LET flag == Lower(query_params[key]) = TrueStr
             Test(p) == products[p][key] = flag
         IN [qs EXCEPT !.rows = SelectSeq(qs.rows, Test)]

\* DecimalField.to_python accepts the value: here, the strings of digits
IsDecimal(s) == s # <<>> /\ \A i \in 1..Len(s) : s[i] \in Digits

\* decimal.Decimal(value) of a string of digits
RECURSIVE DecimalValue(_)
DecimalValue(s) ==
    IF s = <<>> THEN 0
    ELSE 10 * DecimalValue(SubSeq(s, 1, Len(s) - 1))
           + (CHOOSE d \in 0..9 : DigitChar(d) = s[Len(s)])

\* mutant: the bounds are strict
filter_bound_Strict(qs, query_params, key, field, lower) ==
    IF qs.error # "" \/ ~Given(query_params, key) THEN qs
    ELSE IF ~IsDecimal(query_params[key])
    THEN [qs EXCEPT !.rows = <<>>, !.error = "ValidationError"]
    ELSE LET bound == DecimalValue(query_params[key])
             Test(p) ==
                 /\ products[p][field] # NoRating
                 /\ IF lower THEN products[p][field] > bound
                    ELSE products[p][field] < bound
         IN [qs EXCEPT !.rows = SelectSeq(qs.rows, Test)]

\* mutant: the upper price bound is skipped when a lower one is given
filter_bound_OneBoundOnly(qs, query_params, key, field, lower) ==
    IF qs.error # "" \/ ~Given(query_params, key) THEN qs
    ELSE IF ~IsDecimal(query_params[key])
    THEN [qs EXCEPT !.rows = <<>>, !.error = "ValidationError"]
    ELSE IF key = "max_price" /\ Given(query_params, "min_price") THEN qs
    ELSE LET bound == DecimalValue(query_params[key])
             Test(p) ==
                 /\ products[p][field] # NoRating
                 /\ IF lower THEN products[p][field] >= bound
                    ELSE products[p][field] <= bound
         IN [qs EXCEPT !.rows = SelectSeq(qs.rows, Test)]

\* "if min_price:" filter(price__gte=min_price), and the same for max_price
\* (__lte) and min_rating; a value that is no number raises
\* django.core.exceptions.ValidationError when the lookup is built; NULL
\* compares false
filter_bound(qs, query_params, key, field, lower) ==
    IF qs.error # "" \/ ~Given(query_params, key) THEN qs
    ELSE IF ~IsDecimal(query_params[key])
    THEN [qs EXCEPT !.rows = <<>>, !.error = "ValidationError"]
    ELSE LET bound == DecimalValue(query_params[key])
             Test(p) ==
                 /\ products[p][field] # NoRating
                 /\ IF lower THEN products[p][field] >= bound
                    ELSE products[p][field] <= bound
         IN [qs EXCEPT !.rows = SelectSeq(qs.rows, Test)]

\* ProductFilter.filter_queryset
filter_queryset(queryset, query_params) ==
    LET q1 == filter_search(queryset, query_params)
        q2 == filter_related(q1, query_params, "brand", "brand")
        q3 == filter_related(q2, query_params, "category", "category")
        q4 == filter_related(q3, query_params, "subcategory", "sub_category")
        q5 == filter_related(q4, query_params, "platform", "platform")
        q6 == filter_tags(q5, query_params)
        q7 == filter_flag(q6, query_params, "featured")
        q8 == filter_flag(q7, query_params, "published")
        q9 == filter_flag(q8, query_params, "active")
        q10 == filter_bound(q9, query_params, "min_price", "price", TRUE)
        q11 == filter_bound(q10, query_params, "max_price", "price", FALSE)
    IN filter_bound(q11, query_params, "min_rating", "rating", TRUE)

\* the rows a QuerySet yields when it is iterated
Evaluate(qs) == IF qs.distinct THEN Dedupe(qs.rows) ELSE qs.rows

----------------------------------------------------------------------------
(* Calls of the filter on stored catalogs *)

\* products of a filtered catalog
MaxFilterProducts == 2

\* keys of one query string
MaxKeys == 2

\* the lookup rows of the filtered catalogs: two of each kind
FilterLookups ==
    <<Lookup("brand", <<"B", " ", "b">>, <<"b", "-", "b">>, Null),
      Lookup("brand", <<"C">>, <<"c">>, Null),
      Lookup("category", <<"B", " ", "b">>, <<"b", "-", "b">>, Null),
      Lookup("category", <<"C">>, <<"c">>, Null),
      Lookup("subcategory", <<"B", " ", "b">>, <<"b", "-", "b">>, 3),
      Lookup("subcategory", <<"C">>, <<"c">>, 4),
      Lookup("platform", <<"B", " ", "b">>, <<"b", "-", "b">>, Null),
      Lookup("platform", <<"C">>, <<"c">>, Null),
      Lookup("tag", <<"B", " ", "b">>, <<"b", "-", "b">>, Null),
      Lookup("tag", <<"C">>, <<"c">>, Null)>>

\* a Product row with the columns the filter reads; its brand, category,
\* subcategory and platform are the first or the second of FilterLookups
FilterRow(asin, title, LookupSet, tags, featured, published, active, price, rating) ==
    [product_asin |-> asin, title |-> title, slug |-> slugify(title),
     description |-> <<"d">>, brand |-> LookupSet, category |-> 2 + LookupSet,
     sub_category |-> 4 + LookupSet, platform |-> 6 + LookupSet, tags |-> tags,
     featured |-> featured, published |-> published, active |-> active,
     price |-> price, rating |-> rating]

\* the product rows the catalogs are drawn from
FilterRows ==
    <<FilterRow(1, <<"A">>, 1, {10}, TRUE, TRUE, TRUE, 10, 4),
      FilterRow(2, <<"C">>, 2, {9, 10}, FALSE, TRUE, TRUE, 50, NoRating),
      FilterRow(3, <<"A", " ", "1">>, 1, {}, FALSE, FALSE, TRUE, 20, 5),
      FilterRow(4, <<"!">>, 2, {9}, TRUE, TRUE, FALSE, 0, 0)>>

\* the values a client sends for a key
ParamValues(key) ==
    CASE key = "search" -> { <<"c">> }
      [] key \in {"brand", "category"} -> { <<"b", "-", "B">> }
      [] key \in {"subcategory", "platform"} -> { <<"c">> }
      [] key = "tags" -> { <<"C", " ", ",", " ", "B", " ", "b">> }
      [] key = "featured" -> { <<"T", "r", "u", "e">>, <<>> }
      [] key = "published" -> { <<"T", "R", "U", "E">>, <<"y", "e", "s">> }
      [] key = "active" -> { <<"t", "r", "u", "e">>, <<"1">> }
      [] key = "min_price" -> { <<"2", "0">>, <<"a", "b", "c">> }
      [] key = "max_price" -> { <<"2", "0">>, <<"0">> }
      [] OTHER -> { <<"0">> }

\* the recognized keys of a query string
FilterKeys ==
    {"search", "brand", "category", "subcategory", "platform", "tags",
     "featured", "published", "active", "min_price", "max_price", "min_rating"}

AllParamValues == UNION {ParamValues(key) : key \in FilterKeys}

\* the query strings of at most MaxKeys recognized keys
QueryParams ==
    UNION { {m \in [K -> AllParamValues] : \A key \in K : m[key] \in ParamValues(key)} :
              K \in {J \in SUBSET FilterKeys : Cardinality(J) <= MaxKeys} }

\* the stored products in Meta.ordering
RECURSIVE InOrder(_)
InOrder(ids) ==
    IF ids = {} THEN <<>>
    ELSE LET first == CHOOSE p \in ids : \A q \in ids : p <= q
         IN <<first>> \o InOrder(ids \ {first})

\* the base collections: the querysets of some of the stored products
Collections == {InOrder(ids) : ids \in SUBSET DOMAIN products}

\* a caller filters the collection C and iterates the result
filter_call(C, query_params) ==
    /\ response = NoResponse
    /\ LET qs == filter_queryset(Queryset(C), query_params)
       IN response' = [op |-> "filter", code |-> IF qs.error = "" THEN 200 ELSE 500,
                       msg |-> qs.error, id |-> 0, base |-> C,
                       params |-> query_params, rows |-> Evaluate(qs)]
    /\ UNCHANGED <<subs, seq, clock, products, images, videos, lookups, writers>>

\* mutant: the public queryset is the whole table
BaseQueryset_AllRows == InOrder(DOMAIN products)

\* ProductViewSet.queryset: .filter(published=True, active=True), in
\* Meta.ordering
BaseQueryset == InOrder(Visible)

\* ProductViewSet.get_queryset
get_queryset(query_params) == filter_queryset(Queryset(BaseQueryset), query_params)

\* the answer of a listing: the rows serialized, or the server error of an
\* exception that no handler catches
Listing(op, qs, query_params) ==
    [op |-> op, code |-> IF qs.error = "" THEN 200 ELSE 500, msg |-> qs.error,
     id |-> 0, base |-> BaseQueryset, params |-> query_params,
     rows |-> Evaluate(qs)]

\* GET /products/
product_list(query_params) ==
    /\ response = NoResponse
    /\ response' = Listing("list", get_queryset(query_params), query_params)
    /\ UNCHANGED <<subs, seq, clock, products, images, videos, lookups, writers>>

\* GET /products/featured/: get_queryset().filter(featured=True), filtered
\* again by the same parameters
featured(query_params) ==
    /\ response = NoResponse
    /\ LET qs == get_queryset(query_params)
           Test(p) == products[p].featured
           kept == [qs EXCEPT !.rows = SelectSeq(qs.rows, Test)]
       IN response' = Listing("featured", filter_queryset(kept, query_params),
                              query_params)
    /\ UNCHANGED <<subs, seq, clock, products, images, videos, lookups, writers>>

\* GET /products/by-category/<slug>/ and by-subcategory, by-brand,
\* by-platform: get_queryset().filter(Q(<field>__slug=slug) |
\* Q(<field>__name__iexact=slug)), filtered again by the same parameters
by_related(field, slug, query_params) ==
    /\ response = NoResponse
    /\ LET qs == get_queryset(query_params)
           Test(p) == \/ lookups[products[p][field]].slug = slug
                      \/ iexact(lookups[products[p][field]].name, slug)
           kept == [qs EXCEPT !.rows = SelectSeq(qs.rows, Test)]
       IN response' = Listing("by_" \o field, filter_queryset(kept, query_params),
                              query_params)
    /\ UNCHANGED <<subs, seq, clock, products, images, videos, lookups, writers>>

\* the related fields of the by-... listings
RelatedFields == {"category", "sub_category", "brand", "platform"}

\* slug of the listing routes: that of the second row of each kind
RouteSlugs == { <<"c">> }

\* the caller has taken the result
filter_done ==
    /\ response.op \in {"filter", "list", "featured"} \cup {"by_" \o f : f \in RelatedFields}
    /\ response' = NoResponse
    /\ UNCHANGED <<subs, seq, clock, products, images, videos, lookups, writers>>

\* the catalogs: up to MaxFilterProducts of the rows, in their order
InitFilter ==
    /\ subs = NoRows
    /\ seq = InitSeq
    /\ clock = 1
    /\ response = NoResponse
    /\ images = NoRows
    /\ videos = NoRows
    /\ lookups = FilterLookups
    /\ writers = NoRows
    /\ \E picked \in SUBSET (1..Len(FilterRows)) :
          /\ picked # {}
          /\ Cardinality(picked) <= MaxFilterProducts
          /\ products = [i \in 1..Cardinality(picked) |-> FilterRows[InOrder(picked)[i]]]

NextFilter ==
    \/ \E C \in Collections, query_params \in QueryParams : filter_call(C, query_params)
    \/ filter_done

SpecFilter == InitFilter /\ [][NextFilter]_vars

\* the public listings of the stored catalogs
NextListing ==
    \/ \E query_params \in QueryParams : product_list(query_params)
    \/ \E query_params \in QueryParams : featured(query_params)
    \/ \E field \in RelatedFields, slug \in RouteSlugs, query_params \in QueryParams :
          by_related(field, slug, query_params)
    \/ filter_done

SpecListing == InitFilter /\ [][NextListing]_vars

\* the members of a collection
Members(rows) == {rows[i] : i \in 1..Len(rows)}

\* C18: the filter is narrowing: whatever the base collection and the
\* parameters, each product of the result is a member of the base collection.
C18_FilterNarrows ==
    response.op = "filter" => Members(response.rows) \subseteq Members(response.base)

\* C18 witness: a call with parameters on a collection that leaves out a
\* stored product has kept a product and dropped none
C18_Witness ==
    /\ response.op = "filter"
    /\ DOMAIN response.params # {}
    /\ response.rows # <<>>
    /\ response.rows = response.base
    /\ Len(response.base) < Cardinality(DOMAIN products)

\* C19: called with an empty parameter mapping, the filter returns exactly
\* the products of the input collection, none removed and none duplicated.
C19_EmptyParamsIdentity ==
    response.op = "filter" /\ DOMAIN response.params = {}
        => response.rows = response.base /\ response.code = 200

\* C19 witness: a call without parameters on a collection of several products
C19_Witness ==
    /\ response.op = "filter"
    /\ DOMAIN response.params = {}
    /\ Len(response.rows) > 1

\* the restriction of a parameter mapping to some of its keys
Restrict(query_params, K) == [key \in K |-> query_params[key]]

\* C20: predicates compose by AND across keys: for parameter mappings p and q
\* over disjoint keys, the products of filter(C, p merged with q) are those
\* in both filter(C, p) and filter(C, q) (the merged call fails exactly when
\* one of the two fails), and an absent key applies no predicate.
C20_FilterComposes ==
    response.op = "filter"
    => \A K \in SUBSET DOMAIN response.params :
         LET p == filter_queryset(Queryset(response.base), Restrict(response.params, K))
             q == filter_queryset(Queryset(response.base),
                                  Restrict(response.params, DOMAIN response.params \ K))
         IN /\ response.code = 200 <=> p.error = "" /\ q.error = ""
            /\ response.code = 200
                 => Members(response.rows) = Members(Evaluate(p)) \cap Members(Evaluate(q))

\* C20 witness: two keys were given, each alone keeps a product that the two
\* together drop
C20_Witness ==
    /\ response.op = "filter" /\ response.code = 200
    /\ \E K \in SUBSET DOMAIN response.params :
         LET p == filter_queryset(Queryset(response.base), Restrict(response.params, K))
             q == filter_queryset(Queryset(response.base),
                                  Restrict(response.params, DOMAIN response.params \ K))
         IN /\ Members(Evaluate(p)) \ Members(response.rows) # {}
            /\ Members(Evaluate(q)) \ Members(response.rows) # {}

\* the answers of the public listings
ListingOps == {"list", "featured"} \cup {"by_" \o f : f \in RelatedFields}

\* the numeric keys
BoundKeys == {"min_price", "max_price", "min_rating"}

\* the number a string of digits denotes
DenotedBy(value) == CHOOSE n \in 0..99 : IntStr(n) = value

\* value is a string of digits
Numeric(value) == \E n \in 0..99 : IntStr(n) = value

\* C21: a list request with a min_price, max_price or min_rating that is
\* present and is no number is answered with a client (4xx) error, not as if
\* the key were absent.
C21_MalformedBoundIs4xx ==
    /\ response.op \in ListingOps
    /\ \E key \in BoundKeys :
          Given(response.params, key) /\ ~Numeric(response.params[key])
    => response.code \in 400..499

\* the products of a collection within the numeric bounds of a request
WithinBounds(base, query_params) ==
    {p \in Members(base) :
       /\ Given(query_params, "min_price")
            => products[p].price >= DenotedBy(query_params["min_price"])
       /\ Given(query_params, "max_price")
            => products[p].price <= DenotedBy(query_params["max_price"])
       /\ Given(query_params, "min_rating")
            => /\ products[p].rating # NoRating
               /\ products[p].rating >= DenotedBy(query_params["min_rating"])}

\* C22: with numeric bounds given (and no other key), the filter keeps
\* exactly the products with price >= min_price, price <= max_price and
\* rating >= min_rating; the bounds are inclusive, a bound of 0 is a bound,
\* and a product without a rating is dropped whenever min_rating is given.
C22_InclusiveBounds ==
    /\ response.op = "filter"
    /\ DOMAIN response.params \subseteq BoundKeys
    /\ \A key \in DOMAIN response.params : Numeric(response.params[key])
    => /\ response.code = 200
       /\ Members(response.rows) = WithinBounds(response.base, response.params)

\* C22 witness: a bound of 0 and a bound equal to a stored price were applied:
\* the product priced at the bound is kept and an unrated one is dropped
C22_Witness ==
    /\ response.op = "filter" /\ response.code = 200
    /\ DOMAIN response.params = {"max_price", "min_rating"}
    /\ response.params["min_rating"] = <<"0">>
    /\ \E p \in Members(response.rows) :
          products[p].price = DenotedBy(response.params["max_price"])
    /\ \E p \in Members(response.base) : products[p].rating = NoRating

\* the spellings of "true" among the values sent
TrueSpellings ==
    { <<"t", "r", "u", "e">>, <<"T", "r", "u", "e">>, <<"T", "R", "U", "E">> }

FlagKeys == {"featured", "published", "active"}

\* C23: when featured, published or active is present, the filter keeps
\* exactly the products whose flag equals (value lower-cased == "true"):
\* "true", "True" and "TRUE" select flag=true, every other present value,
\* "1", "yes" and the empty string included, selects flag=false.
C23_FlagValues ==
    response.op = "filter"
    => \A key \in FlagKeys \cap DOMAIN response.params :
         LET flag == response.params[key] \in TrueSpellings
         IN /\ \A p \in Members(response.rows) : products[p][key] = flag
            /\ DOMAIN response.params = {key}
                 => Members(response.rows) =
                       {p \in Members(response.base) : products[p][key] = flag}

\* C23 witness: the empty string was sent for a flag and kept a product whose
\* flag is false, dropping one whose flag is true
C23_Witness ==
    /\ response.op = "filter"
    /\ DOMAIN response.params = {"featured"}
    /\ response.params["featured"] = <<>>
    /\ response.rows # <<>>
    /\ \E p \in Members(response.base) : products[p].featured

\* the tag names the tags value sent lists, entries trimmed
TagNames(value) ==
    IF value = <<"C", " ", ",", " ", "B", " ", "b">> THEN { <<"C">>, <<"B", " ", "b">> }
    ELSE {}

\* C24: with a tags parameter (and no other key) the filter keeps exactly the
\* products that have a tag whose name is in the comma-separated list, entries
\* trimmed, and each kept product appears once even when several of its tags
\* match.
C24_TagsOnce ==
    response.op = "filter" /\ DOMAIN response.params = {"tags"}
    => /\ Members(response.rows) =
             {p \in Members(response.base) :
                 \E t \in products[p].tags :
                    lookups[t].name \in TagNames(response.params["tags"])}
       /\ \A i, j \in 1..Len(response.rows) :
             i # j => response.rows[i] # response.rows[j]

\* C24 witness: a product with two listed tags is in the result
C24_Witness ==
    /\ response.op = "filter" /\ DOMAIN response.params = {"tags"}
    /\ \E p \in Members(response.rows) :
          Cardinality({t \in products[p].tags :
                          lookups[t].name \in TagNames(response.params["tags"])}) = 2

\* C25: whatever the query parameters, published=false and active=false
\* included, the public list and the pre-filtered listings hold no product
\* whose published or active flag is false.
C25_OnlyVisibleListed ==
    response.op \in ListingOps
    => \A p \in Members(response.rows) : products[p].published /\ products[p].active

\* C25 witness: a listing was asked for the unpublished products while one is
\* stored, and has returned none
C25_Witness ==
    /\ response.op \in ListingOps
    /\ Present(response.params, "published")
    /\ response.params["published"] \notin TrueSpellings
    /\ response.rows = <<>>
    /\ \E p \in DOMAIN products : ~products[p].published

----------------------------------------------------------------------------
(* Deletion of referenced rows: on_delete=CASCADE *)

\* products of the catalogs whose lookup rows are deleted
MaxCascadeProducts == 2

\* the lookup rows stored at the start: a brand, a platform, two categories,
\* a subcategory of each, a tag
CascadeLookups ==
    <<Lookup("brand", <<"C">>, <<"c">>, Null),
      Lookup("platform", <<"C">>, <<"c">>, Null),
      Lookup("category", <<"B", " ", "b">>, <<"b", "-", "b">>, Null),
      Lookup("category", <<"C">>, <<"c">>, Null),
      Lookup("subcategory", <<"C">>, <<"c">>, 3),
      Lookup("subcategory", <<"C">>, <<"c">>, 4),
      Lookup("tag", <<"C">>, <<"c">>, Null)>>

\* primary keys a client sends for a related row of a kind: those of the rows
\* of that kind stored at the start, deleted since or not
PksOf(kind) == {q \in DOMAIN CascadeLookups : CascadeLookups[q].kind = kind}

\* PrimaryKeyRelatedField: the row of that kind with this pk is stored
RelatedExists(db, kind, pk) ==
    pk \in DOMAIN db.lookups /\ db.lookups[pk].kind = kind

\* a Product instance with its foreign keys; tags are set after the INSERT
RelatedProduct(asin, title, brand, platform, category, sub_category) ==
    [product_asin |-> asin, title |-> title, slug |-> <<>>,
     published |-> TRUE, active |-> TRUE,
     brand |-> brand, platform |-> platform, category |-> category,
     sub_category |-> sub_category, tags |-> {}]

\* product.tags.set(tag_ids)
SetTags(db, p, tag_ids) == [db EXCEPT !.products[p].tags = tag_ids]

\* ProductCreateUpdateSerializer.create behind POST /products/, with the
\* related rows given by primary key
product_create_related(asin, brand, platform, category, sub_category, tag_ids, images_data, videos_data) ==
    /\ IF \/ \E q \in DOMAIN products : products[q].product_asin = asin
          \/ ~RelatedExists(DB, "brand", brand)
          \/ ~RelatedExists(DB, "platform", platform)
          \/ ~RelatedExists(DB, "category", category)
          \/ ~RelatedExists(DB, "subcategory", sub_category)
       THEN /\ response' = Answer("product_create", 400, "invalid", 0)
            /\ UNCHANGED <<products, images, videos, lookups, seq>>
       ELSE LET id == FreshProductId(DB)
                saved == Product_save(DB, id,
                            RelatedProduct(asin, MediaTitle, brand, platform,
                                           category, sub_category))
                tagged == IF tag_ids # {} THEN SetTags(saved, id, tag_ids) ELSE saved
            IN /\ Commit(CreateVideos(CreateImages(tagged, id, images_data),
                                      id, videos_data))
               /\ response' = Answer("product_create", 201, "created", 0)
    /\ OthersUnchanged

\* the rows of the lookup table a delete of row id takes with it: the row,
\* and the subcategories of a Category (SubCategory.category, CASCADE)
LookupsGone(db, id) ==
    {id} \cup {q \in DOMAIN db.lookups :
                  /\ db.lookups[q].kind = "subcategory"
                  /\ db.lookups[q].category = id}

\* the products whose brand, platform, category or sub_category is among gone
Referencing(db, gone) ==
    {p \in DOMAIN db.products :
        {db.products[p].brand, db.products[p].platform,
         db.products[p].category, db.products[p].sub_category} \cap gone # {}}

\* delete of a set of products, one after the other
RECURSIVE DeleteProducts(_, _)
DeleteProducts(db, ps) ==
    IF ps = {} THEN db
    ELSE LET p == CHOOSE q \in ps : TRUE
         IN DeleteProducts(DeleteProduct(db, p), ps \ {p})

\* mutant: the products that reference a deleted row stay
Lookup_delete_SetNull(db, id) ==
    [db EXCEPT !.lookups = Without(db.lookups, LookupsGone(db, id))]

\* <Lookup>.delete(): the rows that reference it through a CASCADE foreign
\* key go with it, and so do the rows of the tags relation that name it
Lookup_delete(db, id) ==
    LET gone == LookupsGone(db, id)
        d == DeleteProducts(db, Referencing(db, gone))
    IN [d EXCEPT !.lookups = Without(d.lookups, gone),
                 !.products = [p \in DOMAIN d.products |->
                                  [d.products[p] EXCEPT !.tags = @ \ gone]]]

\* the admin delete view of a lookup entity; the answer lists what went
lookup_delete(id) ==
    /\ id \in DOMAIN lookups
    /\ Commit(Lookup_delete(DB, id))
    /\ response' = [op |-> "lookup_delete", code |-> 204,
                    msg |-> lookups[id].kind, id |-> id,
                    products |-> Referencing(DB, LookupsGone(DB, id))]
    /\ OthersUnchanged

InitCascade ==
    /\ subs = NoRows
    /\ seq = [InitSeq EXCEPT !.lookup = Len(CascadeLookups) + 1]
    /\ clock = 1
    /\ response = NoResponse
    /\ products = NoRows
    /\ images = NoRows
    /\ videos = NoRows
    /\ lookups = CascadeLookups
    /\ writers = NoRows

NextCascade ==
    \/ \E asin \in AsinInputs, brand \in PksOf("brand"), platform \in PksOf("platform"),
          category \in PksOf("category"), sub_category \in PksOf("subcategory"),
          tag_ids \in SUBSET PksOf("tag"), media_data \in {<<>>, <<TRUE>>} :
          /\ Cardinality(DOMAIN products) < MaxCascadeProducts
          /\ Room(Len(media_data), Len(media_data))
          /\ product_create_related(asin, brand, platform, category, sub_category,
                                    tag_ids, media_data, media_data)
    \/ \E id \in DOMAIN lookups : lookup_delete(id)
    \/ \E id \in DOMAIN products : product_delete(id)

SpecCascade == InitCascade /\ [][NextCascade]_vars

\* every stored product references stored rows of the right kinds, and every
\* stored image and video a stored product
ReferencesExist ==
    /\ \A p \in DOMAIN products :
          /\ RelatedExists(DB, "brand", products[p].brand)
          /\ RelatedExists(DB, "platform", products[p].platform)
          /\ RelatedExists(DB, "category", products[p].category)
          /\ RelatedExists(DB, "subcategory", products[p].sub_category)
    /\ \A i \in DOMAIN images : images[i].product \in DOMAIN products
    /\ \A v \in DOMAIN videos : videos[v].product \in DOMAIN products

\* C26: deleting a Category or SubCategory deletes every product that
\* references it, with those products' images and videos, and a Category's
\* subcategories; so after any sequence of creates and deletes every stored
\* product references a stored brand, platform, category and subcategory and
\* every stored image or video a stored product; a product deletion deletes
\* no tag.
C26_CascadeKeepsReferences ==
    /\ []ReferencesExist
    /\ [][/\ response'.op = "lookup_delete"
             => LET id == response'.id
                    gone == {p \in DOMAIN products :
                                \/ id \in {products[p].brand, products[p].platform,
                                           products[p].category,
                                           products[p].sub_category}
                                \/ /\ products[p].sub_category \in DOMAIN lookups
                                   /\ lookups[products[p].sub_category].category = id}
                IN /\ DOMAIN products' = DOMAIN products \ gone
                   /\ \A i \in DOMAIN images :
                         i \in DOMAIN images' <=> images[i].product \notin gone
                   /\ \A v \in DOMAIN videos :
                         v \in DOMAIN videos' <=> videos[v].product \notin gone
                   /\ \A q \in DOMAIN lookups :
                         q \in DOMAIN lookups'
                            <=> (q # id /\ lookups[q].category # id)
          /\ response'.op = "product_delete" => lookups' = lookups]_vars

\* C26 witness: the delete of a category took a subcategory and a product
\* with its image and video along, and left another product and the tag
C26_Witness ==
    /\ response.op = "lookup_delete"
    /\ response.msg = "category"
    /\ response.products # {}
    /\ products # NoRows
    /\ \E q \in DOMAIN lookups : lookups[q].kind = "tag"
    /\ \A q \in DOMAIN lookups : lookups[q].category # response.id
    /\ seq.image > 1 + Cardinality(DOMAIN images)
    /\ seq.video > 1 + Cardinality(DOMAIN videos)

----------------------------------------------------------------------------
(* The upload_products command with --dry-run *)

\* C27: a run of upload_products with --dry-run leaves the store unchanged:
\* no Platform, Brand, Category, SubCategory, Tag, Product, ProductImage or
\* ProductVideo row is created, updated or deleted, whatever the file and the
\* --platform value.
C27_DryRunLeavesStore ==
    [][response'.op = "upload_products" /\ response'.msg = "dry run"
          => UNCHANGED <<products, images, videos, lookups>>]_vars

----------------------------------------------------------------------------
(* The featured item after a save *)

\* the position of the last entry of an images_data / videos_data list that
\* is marked featured; 0 when none is
LastFeatured(data) ==
    IF \E k \in 1..Len(data) : data[k]
    THEN CHOOSE k \in 1..Len(data) : data[k] /\ \A j \in (k + 1)..Len(data) : ~data[j]
    ELSE 0

\* the featured rows of product p in a media table
FeaturedIn(table, p) ==
    {i \in DOMAIN table : table[i].product = p /\ table[i].is_featured}

\* the images_data / videos_data lists as long as the run of keys a step
\* has taken from a sequence
Taking(before, after) == {data \in MediaData : Len(data) = after - before}

\* C28: right after an image or video is saved with is_featured = true it is
\* the only featured image (video) of its product; the most recently saved
\* featured item wins, so a product created or updated with several entries
\* of images_data (videos_data) marked featured ends with exactly the last of
\* them featured.
C28_LastFeaturedWins ==
    [][/\ response'.op = "image_save"
          => /\ \A p \in DOMAIN products :
                   image_create(p, TRUE) => FeaturedIn(images', p) = {seq.image}
             /\ \A i \in DOMAIN images, p \in DOMAIN products :
                   image_update(i, p, TRUE) => FeaturedIn(images', p) = {i}
       /\ response'.op = "video_save"
          => /\ \A p \in DOMAIN products :
                   video_create(p, TRUE) => FeaturedIn(videos', p) = {seq.video}
             /\ \A i \in DOMAIN videos, p \in DOMAIN products :
                   video_update(i, p, TRUE) => FeaturedIn(videos', p) = {i}
       /\ response'.op = "product_create" /\ response'.code = 201
          => \A asin \in AsinInputs, imgs \in Taking(seq.image, seq'.image),
                vids \in Taking(seq.video, seq'.video) :
                product_create(asin, MediaTitle, TRUE, TRUE, imgs, vids)
                => LET id == FreshProductId(DB)
                   IN /\ LastFeatured(imgs) > 0
                         => FeaturedIn(images', id)
                               = {seq.image + LastFeatured(imgs) - 1}
                      /\ LastFeatured(vids) > 0
                         => FeaturedIn(videos', id)
                               = {seq.video + LastFeatured(vids) - 1}
       /\ response'.op = "product_update" /\ response'.code = 200
          => \A id \in DOMAIN products, ig \in BOOLEAN, vg \in BOOLEAN,
                imgs \in Taking(seq.image, seq'.image),
                vids \in Taking(seq.video, seq'.video) :
                product_update(id, MediaTitle, TRUE, TRUE, ig, imgs, vg, vids)
                => /\ ig /\ LastFeatured(imgs) > 0
                      => FeaturedIn(images', id)
                            = {seq.image + LastFeatured(imgs) - 1}
                   /\ vg /\ LastFeatured(vids) > 0
                      => FeaturedIn(videos', id)
                            = {seq.video + LastFeatured(vids) - 1}
      ]_vars

\* C28 witness: a product was just created with two images, and the second
\* alone is featured
C28_Witness ==
    /\ response.op = "product_create" /\ response.code = 201
    /\ \E p \in DOMAIN products :
          /\ ImagesOf(DB, p) = {seq.image - 2, seq.image - 1}
          /\ FeaturedIn(images, p) = {seq.image - 1}

----------------------------------------------------------------------------
(* Subscriptions without the admin change form *)

\* creation, the public endpoints, the admin views and the admin bulk actions
NextSubListed ==
    \/ \E value \in Emails, agree \in BOOLEAN : subscribe(value, agree)
    \/ \E token \in Tokens : verify_email_subscription(token)
    \/ \E email \in Emails \cup {NoEmail}, token \in Tokens \cup {NoToken} :
          unsubscribe_email(email, token)
    \/ \E i \in SubIds : verify_subscription(i)
    \/ \E i \in SubIds : unsubscribe_subscription(i)
    \/ \E i \in SubIds : resubscribe_subscription(i)
    \/ \E q \in Querysets : mark_as_active(q)
    \/ \E q \in Querysets : mark_as_unsubscribed(q)
    \/ \E q \in Querysets : verify_selected(q)
    \/ \E q \in Querysets : send_verification_email(q)
    \/ Tick

SpecSubListed == InitSub /\ [][NextSubListed]_vars

\* C29: in every state reached through subscription creation, public verify,
\* public unsubscribe, the admin verify / unsubscribe / resubscribe views and
\* the admin bulk actions, an unsubscribed subscription has an unsubscribed_at
\* and a pending subscription is not verified.
C29_StatusFieldsAgree ==
    \A i \in SubIds :
        /\ subs[i].status = "unsubscribed" => subs[i].unsubscribed_at # Null
        /\ subs[i].status = "pending" => ~subs[i].is_verified

\* C29 witness: the bulk action has unsubscribed a subscription that was
\* reactivated before, while another is still pending
C29_Witness ==
    /\ response.op = "mark_as_unsubscribed"
    /\ \E i, j \in SubIds :
          /\ subs[i].status = "unsubscribed" /\ subs[i].is_verified
          /\ subs[j].status = "pending"

----------------------------------------------------------------------------
(* Files uploaded entry by entry *)

\* products stored by uploads, and image (video) keys handed out by them
MaxUploadProducts == 2
MaxUploaded == 3

\* entries of an uploaded file: a product_asin that is new, stored or missing,
\* one image URL, one video URL or a JSON null in its place, one tag or none
UploadedEntries ==
    {TaggedEntry(asin, MediaTitle, <<"u">>, video_urls, tag_names) :
        asin \in {Null} \cup AsinInputs,
        video_urls \in {<<"u">>, <<JsonNull>>},
        tag_names \in {<<>>, << <<"C">> >>}}

\* uploaded files: one entry, or two
UploadedFiles ==
    {<<e>> : e \in UploadedEntries}
       \cup {<<e1, e2>> : e1 \in UploadedEntries, e2 \in UploadedEntries}

\* the codes of a file that no stored product has
NewAsins(data) ==
    {data[k].product_asin : k \in 1..Len(data)}
       \ ({Null} \cup {products[q].product_asin : q \in DOMAIN products})

NextUpload ==
    \/ \E data \in UploadedFiles, update_existing \in BOOLEAN, dry_run \in BOOLEAN :
          /\ Cardinality(DOMAIN products) + Cardinality(NewAsins(data))
                <= MaxUploadProducts
          /\ seq.image + Len(data) - 1 <= MaxUploaded
          /\ seq.video + Len(data) - 1 <= MaxUploaded
          /\ upload_products(data, Amazon, update_existing, dry_run)
    \/ \E id \in DOMAIN products : product_delete(id)

SpecUpload == InitCatalog /\ [][NextUpload]_vars

\* the tags of a product row; a row never tagged has none
TagsOf(row) == IF "tags" \in DOMAIN row THEN row.tags ELSE {}

\* C30: in a run without --dry-run every entry is attempted, whatever became
\* of the ones before it, and an entry that fails (no ASIN, a stored ASIN
\* without --update, an error while writing) leaves none of its writes: when
\* no entry was processed the store is as before but for the platform row;
\* a product written by the run has the one image and the one video of its
\* entry, both new; every other product keeps its row, images and videos;
\* and a new tag is a tag of a product written by the run.
C30_EntriesAllOrNothing ==
    [][response'.op = "upload_products" /\ response'.msg = "processed"
       => LET out == response'.out
              processed == {k \in 1..Len(out) : out[k] = ""}
              written == {p \in DOMAIN products' :
                            \E i \in DOMAIN images' :
                               images'[i].product = p /\ i >= seq.image}
          IN /\ Len(out) = response'.found
             /\ processed = {}
                  => /\ products' = products /\ images' = images /\ videos' = videos
                     /\ \A q \in DOMAIN lookups' \ DOMAIN lookups :
                           lookups'[q].kind = "platform"
             /\ processed # {} <=> written # {}
             /\ \A p \in written :
                   /\ Cardinality({i \in DOMAIN images' : images'[i].product = p}) = 1
                   /\ \E v \in DOMAIN videos' :
                         /\ v >= seq.video
                         /\ {w \in DOMAIN videos' : videos'[w].product = p} = {v}
             /\ \A p \in DOMAIN products \ written :
                   /\ p \in DOMAIN products' /\ products'[p] = products[p]
                   /\ \A i \in DOMAIN images \cup DOMAIN images' :
                         (i \in DOMAIN images /\ images[i].product = p)
                            <=> (i \in DOMAIN images' /\ images'[i].product = p)
                   /\ \A v \in DOMAIN videos \cup DOMAIN videos' :
                         (v \in DOMAIN videos /\ videos[v].product = p)
                            <=> (v \in DOMAIN videos' /\ videos'[v].product = p)
             /\ \A q \in DOMAIN lookups' \ DOMAIN lookups :
                   lookups'[q].kind = "tag"
                      => \E p \in written : q \in TagsOf(products'[p])
      ]_vars

\* C30 witness: the first entry of a file failed at its video, after its
\* product, tag and image were written, the second was processed, and the
\* store holds one product, without a tag
C30_Witness ==
    /\ response.op = "upload_products"
    /\ response.out = <<"AttributeError", "">>
    /\ Cardinality(DOMAIN products) = 1
    /\ \A q \in DOMAIN lookups : lookups[q].kind # "tag"

====
